---- MODULE Spec2Model ----
(***************************************************************************)
(* A model of py_wappalyzer: the detector (analyzer.py) and the HAR        *)
(* signal extractor (har.py).                                              *)
(*                                                                         *)
(* Data representation.                                                    *)
(*   - A text (Python str) is a sequence of one-character strings.         *)
(*   - A JSON value is a record [k |-> kind, v |-> payload] with kind one  *)
(*     of "str", "list", "dict", "num", "null".  A "dict" payload is the   *)
(*     sequence of its <<key, value>> pairs in insertion order (Python     *)
(*     dicts iterate in insertion order).                                  *)
(*   - A regex is a sequence of atoms (see Search); names of headers,      *)
(*     cookies, technologies are atomic strings folded by Lower/Upper.     *)
(*   - An exception that leaves a function is the record field             *)
(*     raised = TRUE of its result.                                        *)
(***************************************************************************)
EXTENDS Integers, Sequences, FiniteSets, TLC

(***************************************************************************)
(* Bounds of the model.                                                    *)
(***************************************************************************)
\* analyze calls one caller makes in a run
MaxCalls == 2

(***************************************************************************)
(* Sequence helpers.                                                       *)
(***************************************************************************)
Min(a, b) == IF a <= b THEN a ELSE b

Range(s) == {s[i] : i \in DOMAIN s}

RECURSIVE Concat(_)
\* the concatenation of a sequence of sequences
Concat(ss) == IF ss = <<>> THEN <<>> ELSE Head(ss) \o Concat(Tail(ss))

NoDup(s) == \A i, j \in DOMAIN s : i # j => s[i] # s[j]

(***************************************************************************)
(* JSON values.                                                            *)
(***************************************************************************)
JStr(t) == [k |-> "str", v |-> t]
JList(s) == [k |-> "list", v |-> s]
JDict(pairs) == [k |-> "dict", v |-> pairs]
JNum(n) == [k |-> "num", v |-> n]
JNull == [k |-> "null", v |-> 0]

\* Python truthiness of a JSON value: "", [], {}, 0 and None are falsy
Truthy(j) ==
    CASE j.k = "str" -> j.v # <<>>
      [] j.k = "list" -> j.v # <<>>
      [] j.k = "dict" -> j.v # <<>>
      [] j.k = "num" -> j.v # 0
      [] OTHER -> FALSE

IsDict(j) == j.k = "dict"

\* "key in d" for a dict payload
HasKey(pairs, key) == \E i \in DOMAIN pairs : pairs[i][1] = key

\* d[key] for a key that is present
Get(pairs, key) == pairs[CHOOSE i \in DOMAIN pairs : pairs[i][1] = key][2]

\* d.get(key, default)
GetOr(pairs, key, default) == IF HasKey(pairs, key) THEN Get(pairs, key) ELSE default

(***************************************************************************)
(* Case folding: str.lower() / str.upper() on the characters and names     *)
(* the model uses.                                                         *)
(***************************************************************************)
Lower(s) ==
    CASE s = "A" -> "a"
      [] s = "B" -> "b"
      [] s = "Server" -> "server"
      [] s = "SERVER" -> "server"
      [] s = "TXT" -> "txt"
      [] s = "H" -> "h"
      [] s = "T" -> "t"
      [] s = "M" -> "m"
      [] s = "L" -> "l"
      [] OTHER -> s

Upper(s) ==
    CASE s = "a" -> "A"
      [] s = "b" -> "B"
      [] s = "Server" -> "SERVER"
      [] s = "server" -> "SERVER"
      [] s = "txt" -> "TXT"
      [] OTHER -> s

Digits == {"0", "1", "2", "3", "4", "5", "6", "7", "8", "9"}

\* str(i) for the small integers used as category and group ids
StrOf(n) ==
    CASE n = 1 -> "1"
      [] n = 2 -> "2"
      [] n = 3 -> "3"
      [] n = 4 -> "4"
      [] n = 5 -> "5"
      [] n = 7 -> "7"
      [] OTHER -> "?"

(***************************************************************************)
(* Regular expressions.  A pattern string is a sequence of atoms:          *)
(*   [t |-> "lit", c |-> x]   the literal character x                      *)
(*   [t |-> "grp", ...]       a capturing group of one digit               *)
(*   [t |-> "opt", ...]       an optional capturing group of one digit     *)
(*   [t |-> "star", ...]      a capturing group of zero or more digits     *)
(*   [t |-> "any2", ...]      a capturing group of any two characters      *)
(*   [t |-> "bad", ...]       an unbalanced parenthesis: re.error          *)
(*   [t |-> "meta", ...]      the two characters \; that open the suffix   *)
(***************************************************************************)
Lit(x) == [t |-> "lit", c |-> x]
Grp == [t |-> "grp", c |-> ""]
Opt == [t |-> "opt", c |-> ""]
Star == [t |-> "star", c |-> ""]
Any2 == [t |-> "any2", c |-> ""]
Bad == [t |-> "bad", c |-> ""]
Meta == [t |-> "meta", c |-> ""]

\* a capture group of a match: unset (None) or the captured text
Unset == [set |-> FALSE, s |-> <<>>]
Captured(s) == [set |-> TRUE, s |-> s]

\* re.sub(r"\\;.*$", "", pattern)
StripWappalyzerPattern(pattern) ==
    IF \E i \in DOMAIN pattern : pattern[i].t = "meta"
    THEN SubSeq(pattern, 1,
                (CHOOSE i \in DOMAIN pattern :
                    /\ pattern[i].t = "meta"
                    /\ \A j \in 1..(i - 1) : pattern[j].t # "meta") - 1)
    ELSE pattern

\* re.compile raises re.error
Invalid(pat) == \E i \in DOMAIN pat : pat[i].t = "bad"

NoMatch == [ok |-> FALSE, groups |-> <<>>]

\* the digits of text from position ti on
RECURSIVE DigitRun(_, _)
DigitRun(text, ti) ==
    IF ti <= Len(text) /\ text[ti] \in Digits THEN 1 + DigitRun(text, ti + 1) ELSE 0

\* a match of the rest, with the capture g put before its groups
WithGroup(g, r) ==
    IF r.ok THEN [ok |-> TRUE, groups |-> <<g>> \o r.groups] ELSE NoMatch

\* the first of two alternatives that matches
FirstOf(r1, r2) == IF r1.ok THEN r1 ELSE r2

RECURSIVE MatchAt(_, _, _, _)
RECURSIVE StarFrom(_, _, _, _, _)
\* a group of n digits, then fewer: the longest run that lets the rest match
StarFrom(pat, pi, text, ti, n) ==
    FirstOf(WithGroup(Captured(SubSeq(text, ti, ti + n - 1)),
                      MatchAt(pat, pi + 1, text, ti + n)),
            IF n = 0 THEN NoMatch ELSE StarFrom(pat, pi, text, ti, n - 1))

\* the match of pat[pi..] anchored at text position ti that the backtracking
\* matcher finds first, IGNORECASE
MatchAt(pat, pi, text, ti) ==
    IF pi > Len(pat) THEN [ok |-> TRUE, groups |-> <<>>]
    ELSE CASE pat[pi].t = "lit" ->
                IF ti <= Len(text) /\ Lower(text[ti]) = Lower(pat[pi].c)
                THEN MatchAt(pat, pi + 1, text, ti + 1)
                ELSE NoMatch
           [] pat[pi].t = "grp" ->
                IF ti <= Len(text) /\ text[ti] \in Digits
                THEN WithGroup(Captured(<<text[ti]>>), MatchAt(pat, pi + 1, text, ti + 1))
                ELSE NoMatch
           [] pat[pi].t = "opt" ->
                FirstOf(IF ti <= Len(text) /\ text[ti] \in Digits
                        THEN WithGroup(Captured(<<text[ti]>>),
                                       MatchAt(pat, pi + 1, text, ti + 1))
                        ELSE NoMatch,
                        WithGroup(Unset, MatchAt(pat, pi + 1, text, ti)))
           [] pat[pi].t = "star" -> StarFrom(pat, pi, text, ti, DigitRun(text, ti))
           [] pat[pi].t = "any2" ->
                IF ti + 1 <= Len(text)
                THEN WithGroup(Captured(SubSeq(text, ti, ti + 1)),
                               MatchAt(pat, pi + 1, text, ti + 2))
                ELSE NoMatch
           [] OTHER -> NoMatch

RECURSIVE SearchFrom(_, _, _)
\* the match at the leftmost position that has one
SearchFrom(pat, text, ti) ==
    IF ti > Len(text) + 1 THEN NoMatch
    ELSE FirstOf(MatchAt(pat, 1, text, ti), SearchFrom(pat, text, ti + 1))

\* re.search(pat, text, re.IGNORECASE) for a pattern that compiles
Search(pat, text) == SearchFrom(pat, text, 1)

(***************************************************************************)
(* str.replace(old, new): every non-overlapping occurrence, left to right. *)
(***************************************************************************)
RECURSIVE Replace(_, _, _)
Replace(s, old, new) ==
    IF Len(s) < Len(old) \/ old = <<>> THEN s
    ELSE IF SubSeq(s, 1, Len(old)) = old
         THEN new \o Replace(SubSeq(s, Len(old) + 1, Len(s)), old, new)
         ELSE <<Head(s)>> \o Replace(Tail(s), old, new)

\* f"\\{i}" : a backslash and the decimal digits of i (i < 10 in the model)
BackRef(i) == <<"\\", StrOf(i)>>

(***************************************************************************)
(* TechDetector._check_pattern and _check_pattern_with_version.            *)
(* The elements of a pattern list and the keys of a pattern dict are       *)
(* pattern strings (str(pattern) is then the pattern itself).              *)
(***************************************************************************)
\* the pattern strings of a dict, in declared order: list(patterns.keys())
Keys(pairs) == [i \in DOMAIN pairs |-> pairs[i][1]]

RECURSIVE AnyPatternMatchesUntilInvalid(_, _, _)
\* AnyPatternMatches with the loop ended by an invalid pattern
AnyPatternMatchesUntilInvalid(text, pats, i) ==
    IF i > Len(pats) THEN FALSE
    ELSE IF Invalid(StripWappalyzerPattern(pats[i])) THEN FALSE
         ELSE IF Search(StripWappalyzerPattern(pats[i]), text).ok THEN TRUE
              ELSE AnyPatternMatchesUntilInvalid(text, pats, i + 1)

RECURSIVE AnyPatternMatches(_, _, _)
\* the loop of lines 205-212 and 238-245: an invalid pattern is skipped
AnyPatternMatches(text, pats, i) ==
    IF i > Len(pats) THEN FALSE
    ELSE IF Invalid(StripWappalyzerPattern(pats[i]))
         THEN AnyPatternMatches(text, pats, i + 1)
         ELSE IF Search(StripWappalyzerPattern(pats[i]), text).ok THEN TRUE
              ELSE AnyPatternMatches(text, pats, i + 1)

CheckPattern(text, patterns) ==
    IF text = <<>> \/ ~Truthy(patterns) THEN FALSE
    ELSE CASE patterns.k = "str" -> AnyPatternMatches(text, <<patterns.v>>, 1)
           [] patterns.k = "dict" -> AnyPatternMatches(text, Keys(patterns.v), 1)
           [] patterns.k = "list" -> AnyPatternMatches(text, patterns.v, 1)
           [] OTHER -> FALSE

\* a group is substituted when it is truthy: it took part in the match and is not empty
GroupTruthy(g) == g.set /\ g.s # <<>>

RECURSIVE SubstituteGroups(_, _, _)
\* lines 228-230: version.replace(f"\\{i}", group) for i = 1, 2, ... in turn
SubstituteGroups(version, groups, i) ==
    IF i > Len(groups) THEN version
    ELSE SubstituteGroups(
             IF GroupTruthy(groups[i]) THEN Replace(version, BackRef(i), groups[i].s)
             ELSE version,
             groups, i + 1)

Raised == [raised |-> TRUE, matched |-> FALSE, version |-> JNull]
Result(matched, version) == [raised |-> FALSE, matched |-> matched, version |-> version]

\* lines 226-232 for a matching entry: match.groups() and version_info both truthy
VersionOfMatch(groups, version_info) ==
    IF groups # <<>> /\ Truthy(version_info)
    THEN IF version_info.k = "str"
         THEN Result(TRUE, JStr(SubstituteGroups(version_info.v, groups, 1)))
         ELSE IF \E i \in DOMAIN groups : GroupTruthy(groups[i])
              THEN Raised    \* version.replace on a value that is no str: AttributeError
              ELSE Result(TRUE, version_info)
    ELSE Result(TRUE, JNull)

\* the entry decides when its pattern matched, else the entries after it do
MatchOrNext(m, version_info, next) ==
    IF m.ok THEN VersionOfMatch(m.groups, version_info) ELSE next

RECURSIVE VersionedMapCheckLastWins(_, _, _)
\* VersionedMapCheck without the returns of lines 231-232: the loop goes on, and
\* the last entry that matches decides
VersionedMapCheckLastWins(text, pairs, i) ==
    IF i > Len(pairs) THEN Result(FALSE, JNull)
    ELSE IF Invalid(StripWappalyzerPattern(pairs[i][1]))
            \/ VersionedMapCheckLastWins(text, pairs, i + 1).matched
         THEN VersionedMapCheckLastWins(text, pairs, i + 1)
         ELSE MatchOrNext(Search(StripWappalyzerPattern(pairs[i][1]), text), pairs[i][2],
                          Result(FALSE, JNull))

RECURSIVE VersionedMapCheck(_, _, _)
\* lines 219-233: the entries of a dict in declared order, the first match decides
VersionedMapCheck(text, pairs, i) ==
    IF i > Len(pairs) THEN Result(FALSE, JNull)
    ELSE IF Invalid(StripWappalyzerPattern(pairs[i][1]))
         THEN VersionedMapCheck(text, pairs, i + 1)
         ELSE MatchOrNext(Search(StripWappalyzerPattern(pairs[i][1]), text), pairs[i][2],
                          VersionedMapCheck(text, pairs, i + 1))

CheckPatternWithVersion(text, patterns) ==
    IF text = <<>> \/ ~Truthy(patterns) THEN Result(FALSE, JNull)
    ELSE CASE patterns.k = "dict" -> VersionedMapCheck(text, patterns.v, 1)
           [] patterns.k = "str" ->
                Result(AnyPatternMatches(text, <<patterns.v>>, 1), JNull)
           [] patterns.k = "list" ->
                Result(AnyPatternMatches(text, patterns.v, 1), JNull)
           [] OTHER -> Raised    \* for pattern in <a number>: TypeError

(***************************************************************************)
(* The body of analyze's loop for one technology (lines 94-176).           *)
(* A bundle is [url, html, headers, cookies, scripts, meta, dns,           *)
(* certIssuer]; headers, cookies, meta and dns are dict payloads.  html    *)
(* is [text, tags, rejects]: the characters the regexes see, the tags a    *)
(* parser finds in it, and the parsers that raise on it.                   *)
(***************************************************************************)
Label(sig, name) == [sig |-> sig, name |-> name]

NoChecks == [raised |-> FALSE, matches |-> <<>>, versions |-> {}]

\* versions.add(version) raises TypeError for an unhashable version (a list, a dict)
Unhashable(j) == j.k \in {"list", "dict"}

\* one check of `text` against `spec`, appending `label` on success
\* what a check that returned r adds: its label, and its version when truthy
Checked(r, label) ==
    IF r.raised THEN [raised |-> TRUE, matches |-> <<>>, versions |-> {}]
    ELSE IF ~r.matched THEN NoChecks
    ELSE IF ~Truthy(r.version)
         THEN [raised |-> FALSE, matches |-> <<label>>, versions |-> {}]
         ELSE [raised |-> Unhashable(r.version), matches |-> <<label>>,
               versions |-> {r.version}]

OneCheck(text, spec, label, withVersion) ==
    Checked(IF withVersion THEN CheckPatternWithVersion(text, spec)
            ELSE Result(CheckPattern(text, spec), JNull), label)

\* the checks a, then the checks b
Then(a, b) ==
    [raised |-> a.raised \/ b.raised,
     matches |-> a.matches \o b.matches,
     versions |-> a.versions \cup b.versions]

RECURSIVE Checks(_, _, _, _)
\* the same check for each text of a list in turn (scripts, dns values)
Checks(texts, spec, label, withVersion) ==
    IF texts = <<>> THEN NoChecks
    ELSE Then(OneCheck(Head(texts), spec, label, withVersion),
              Checks(Tail(texts), spec, label, withVersion))

RECURSIVE Sections(_)
\* the checks of a technology one after the other; the first exception ends them
Sections(rs) ==
    IF rs = <<>> THEN NoChecks
    ELSE Then(Head(rs), Sections(Tail(rs)))

\* soup.find_all("script", src=True), each tag's src attribute
ScriptSrcs(tags) ==
    LET withSrc == SelectSeq(tags, LAMBDA g : g.tag = "script" /\ g.hasSrc)
    IN [i \in DOMAIN withSrc |-> withSrc[i].src]

\* lines 84-91: the first parser that does not raise gives the soup, else None
Soup(html) ==
    IF html.text = <<>> /\ html.tags = <<>> THEN [some |-> FALSE, tags |-> <<>>]
    ELSE IF {"lxml", "html.parser"} \subseteq html.rejects
         THEN [some |-> FALSE, tags |-> <<>>]
         ELSE [some |-> TRUE, tags |-> html.tags]

\* headers.get(header_name) or headers.get(header_name.lower()) or ""
HeaderValue(headers, header_name) ==
    LET exact == GetOr(headers, header_name, <<>>)
    IN IF exact # <<>> THEN exact ELSE GetOr(headers, Lower(header_name), <<>>)

\* lines 133-145
HeaderChecks(headers, spec) ==
    IF ~IsDict(spec) THEN [raised |-> TRUE, matches |-> <<>>, versions |-> {}]
    ELSE Sections([i \in DOMAIN spec.v |->
            LET header_value == HeaderValue(headers, spec.v[i][1])
            IN IF header_value # <<>>
               THEN OneCheck(header_value, spec.v[i][2], Label("headers", spec.v[i][1]), TRUE)
               ELSE NoChecks])

\* CookieChecks with the cookie checked by _check_pattern_with_version
CookieChecksWithVersion(cookies, spec) ==
    IF ~IsDict(spec) THEN [raised |-> TRUE, matches |-> <<>>, versions |-> {}]
    ELSE Sections([i \in DOMAIN spec.v |->
            LET cookie_value == GetOr(cookies, spec.v[i][1], <<>>)
            IN IF cookie_value # <<>>
               THEN OneCheck(cookie_value, spec.v[i][2], Label("cookies", spec.v[i][1]), TRUE)
               ELSE NoChecks])

\* lines 148-152
CookieChecks(cookies, spec) ==
    IF ~IsDict(spec) THEN [raised |-> TRUE, matches |-> <<>>, versions |-> {}]
    ELSE Sections([i \in DOMAIN spec.v |->
            LET cookie_value == GetOr(cookies, spec.v[i][1], <<>>)
            IN IF cookie_value # <<>>
               THEN OneCheck(cookie_value, spec.v[i][2], Label("cookies", spec.v[i][1]), FALSE)
               ELSE NoChecks])

\* lines 155-163
MetaChecks(meta, spec) ==
    IF ~IsDict(spec) THEN [raised |-> TRUE, matches |-> <<>>, versions |-> {}]
    ELSE Sections([i \in DOMAIN spec.v |->
            LET meta_value == GetOr(meta, spec.v[i][1], <<>>)
            IN IF meta_value # <<>>
               THEN OneCheck(meta_value, spec.v[i][2], Label("meta", spec.v[i][1]), TRUE)
               ELSE NoChecks])

\* lines 166-171
DnsChecks(dns, spec) ==
    IF ~IsDict(spec) THEN [raised |-> TRUE, matches |-> <<>>, versions |-> {}]
    ELSE Sections([i \in DOMAIN spec.v |->
            Checks(GetOr(dns, Upper(spec.v[i][1]), <<>>), spec.v[i][2],
                   Label("dns", spec.v[i][1]), FALSE)])

\* lines 97-176 for a technology whose tech_data is a dict with payload td
TechChecks(td, b) ==
    LET soup == Soup(b.html)
        html == b.html.text # <<>> \/ b.html.tags # <<>>
    IN Sections(<<
        IF b.url # <<>> /\ HasKey(td, "url")
        THEN OneCheck(b.url, Get(td, "url"), Label("url", ""), FALSE) ELSE NoChecks,
        IF html /\ HasKey(td, "html")
        THEN OneCheck(b.html.text, Get(td, "html"), Label("html", ""), TRUE) ELSE NoChecks,
        IF soup.some /\ HasKey(td, "scripts")
        THEN Checks(ScriptSrcs(soup.tags), Get(td, "scripts"), Label("scripts", ""), TRUE)
        ELSE NoChecks,
        IF b.scripts # <<>> /\ HasKey(td, "scripts")
        THEN Checks(b.scripts, Get(td, "scripts"), Label("scripts", ""), TRUE)
        ELSE NoChecks,
        IF b.headers # <<>> /\ HasKey(td, "headers")
        THEN HeaderChecks(b.headers, Get(td, "headers")) ELSE NoChecks,
        IF b.cookies # <<>> /\ HasKey(td, "cookies")
        THEN CookieChecks(b.cookies, Get(td, "cookies")) ELSE NoChecks,
        IF b.meta # <<>> /\ HasKey(td, "meta")
        THEN MetaChecks(b.meta, Get(td, "meta")) ELSE NoChecks,
        IF b.dns # <<>> /\ HasKey(td, "dns")
        THEN DnsChecks(b.dns, Get(td, "dns")) ELSE NoChecks,
        IF b.certIssuer # <<>> /\ HasKey(td, "certIssuer")
        THEN OneCheck(b.certIssuer, Get(td, "certIssuer"), Label("certIssuer", ""), FALSE)
        ELSE NoChecks >>)

\* DetectedEntry without the cap of line 179
DetectedEntryUncapped(td, r) ==
    [versions |-> r.versions,
     confidence |-> Len(r.matches) * 10,
     matches |-> r.matches,
     categories |-> GetOr(td, "cats", JList(<<>>))]

\* lines 178-185: the entry analyze stores in self.detected for a technology
DetectedEntry(td, r) ==
    [versions |-> r.versions,
     confidence |-> Min(Len(r.matches) * 10, 100),
     matches |-> r.matches,
     categories |-> GetOr(td, "cats", JList(<<>>))]

(***************************************************************************)
(* TechDetector._format_results (lines 247-283).                           *)
(***************************************************************************)
\* a display name read from a table, and the f-string fallback of lines 268 and 277
DisplayName(s) == [synth |-> FALSE, s |-> s, id |-> 0]
Synthesized(kind, id) == [synth |-> TRUE, s |-> kind, id |-> id]

\* d[key] = val on a dict payload: a present key keeps its place
SetItem(pairs, key, val) ==
    IF HasKey(pairs, key)
    THEN [i \in DOMAIN pairs |-> IF pairs[i][1] = key THEN <<key, val>> ELSE pairs[i]]
    ELSE Append(pairs, <<key, val>>)

\* the orders in which a set can be iterated
Orders(S) == {f \in [1..Cardinality(S) -> S] : \A i, j \in DOMAIN f : i # j => f[i] # f[j]}

\* ResolvedCats with the loop of line 264 left after the first category found
ResolvedCatsFirstOnly(cat_ids, cats) ==
    LET found == SelectSeq(cat_ids,
                     LAMBDA c : HasKey(cats, StrOf(c)) /\ IsDict(Get(cats, StrOf(c))))
    IN SubSeq(found, 1, Min(1, Len(found)))

\* lines 264-271 for the category ids that resolve to a dict, in declared order
ResolvedCats(cat_ids, cats) ==
    SelectSeq(cat_ids, LAMBDA c : HasKey(cats, StrOf(c)) /\ IsDict(Get(cats, StrOf(c))))

\* cat_info.get("name", f"Category {cat_id}")
CategoryName(cat_id, cats) ==
    LET cat_info == Get(cats, StrOf(cat_id)).v
    IN IF HasKey(cat_info, "name") THEN DisplayName(Get(cat_info, "name"))
       ELSE Synthesized("Category", cat_id)

\* cat_info.get("groups", [])
CategoryGroups(cat_id, cats) == GetOr(Get(cats, StrOf(cat_id)).v, "groups", JList(<<>>))

\* grp_info.get("name", f"Group {grp_id}")
GroupName(grp_id, grps) ==
    LET grp_info == Get(grps, StrOf(grp_id)).v
    IN IF HasKey(grp_info, "name") THEN DisplayName(Get(grp_info, "name"))
       ELSE Synthesized("Group", grp_id)

\* the set group_ids built by lines 262-271
GroupIds(cat_ids, cats) ==
    UNION {Range(CategoryGroups(c, cats).v) : c \in Range(ResolvedCats(cat_ids, cats))}

\* lines 273-278: the names of the ids of `order` that resolve to a dict
GroupNames(order, grps) ==
    LET resolved == SelectSeq(order,
                        LAMBDA g : HasKey(grps, StrOf(g)) /\ IsDict(Get(grps, StrOf(g))))
    IN [i \in DOMAIN resolved |-> GroupName(resolved[i], grps)]

\* iterating cat_ids, or a category's groups, raises TypeError when it is no list
FormatRaises(tech_info, cats) ==
    LET cat_ids == GetOr(tech_info, "cats", JList(<<>>))
    IN IF cat_ids.k # "list" THEN TRUE
       ELSE \E c \in Range(ResolvedCats(cat_ids.v, cats)) :
                CategoryGroups(c, cats).k # "list"

\* lines 251-280: the result built for one item of self.detected; `order` is the
\* order in which the set group_ids is iterated
FormatOne(tech_name, data, techs, cats, grps, order) ==
    LET tech_info == IF HasKey(techs, tech_name) /\ IsDict(Get(techs, tech_name))
                     THEN Get(techs, tech_name).v ELSE <<>>
        cat_ids == GetOr(tech_info, "cats", JList(<<>>)).v
        resolved == ResolvedCats(cat_ids, cats)
    IN [name |-> tech_name,
        confidence |-> data.confidence,
        versions |-> data.versions,
        categories |-> [i \in DOMAIN resolved |-> CategoryName(resolved[i], cats)],
        groups |-> GroupNames(order, grps)]

\* the group id set of the technology named tech_name
TechGroupIds(tech_name, techs, cats) ==
    LET tech_info == IF HasKey(techs, tech_name) /\ IsDict(Get(techs, tech_name))
                     THEN Get(techs, tech_name).v ELSE <<>>
    IN IF FormatRaises(tech_info, cats) THEN {}
       ELSE GroupIds(GetOr(tech_info, "cats", JList(<<>>)).v, cats)

\* GroupOrders with group_ids a list: an id is kept once per category naming it
GroupOrdersKeepingRepeats(tech_name, techs, cats) ==
    LET tech_info == IF HasKey(techs, tech_name) /\ IsDict(Get(techs, tech_name))
                     THEN Get(techs, tech_name).v ELSE <<>>
        resolved == ResolvedCats(GetOr(tech_info, "cats", JList(<<>>)).v, cats)
    IN {Concat([i \in DOMAIN resolved |-> CategoryGroups(resolved[i], cats).v])}

\* lines 262-273: the orders in which the loop of line 273 can meet the ids of the
\* set group_ids
GroupOrders(tech_name, techs, cats) == Orders(TechGroupIds(tech_name, techs, cats))

TechFormatRaises(tech_name, techs, cats) ==
    LET tech_info == IF HasKey(techs, tech_name) /\ IsDict(Get(techs, tech_name))
                     THEN Get(techs, tech_name).v ELSE <<>>
    IN FormatRaises(tech_info, cats)

RECURSIVE InsertBeforeEqual(_, _)
\* InsertByConfidence with x put before the elements of equal confidence
InsertBeforeEqual(x, sorted) ==
    IF sorted = <<>> THEN <<x>>
    ELSE IF Head(sorted).confidence > x.confidence
         THEN <<Head(sorted)>> \o InsertBeforeEqual(x, Tail(sorted))
         ELSE <<x>> \o sorted

RECURSIVE InsertByConfidence(_, _)
\* x goes after every element whose confidence is not smaller
InsertByConfidence(x, sorted) ==
    IF sorted = <<>> THEN <<x>>
    ELSE IF Head(sorted).confidence >= x.confidence
         THEN <<Head(sorted)>> \o InsertByConfidence(x, Tail(sorted))
         ELSE <<x>> \o sorted

RECURSIVE SortByConfidence(_)
\* line 282: results.sort(key=confidence, reverse=True), a stable sort
SortByConfidence(results) ==
    IF results = <<>> THEN <<>>
    ELSE InsertByConfidence(results[Len(results)],
                            SortByConfidence(SubSeq(results, 1, Len(results) - 1)))

(***************************************************************************)
(* The fingerprint tables and bundles the model draws its inputs from.     *)
(***************************************************************************)
tA == <<"a">>
tB == <<"b">>
tA1 == <<"a", "1">>
tUpA2 == <<"A", "2">>
tB1 == <<"b", "1">>

\* the regexes  a  b  a([0-9])  a([0-9])?  (  a\;(
pA == <<Lit("a")>>
pB == <<Lit("b")>>
pAv == <<Lit("a"), Grp>>
pAopt == <<Lit("a"), Opt>>
pBad == <<Bad>>
pAmeta == <<Lit("a"), Meta, Bad>>

\* the version templates  \1  and  v\1
v1 == JStr(<<"\\", "1">>)
vV1 == JStr(<<"v", "\\", "1">>)

Tech(name, pairs) == <<name, JDict(pairs)>>

BigTech ==
    Tech("Big", <<
        <<"url", JStr(pA)>>,
        <<"html", JDict(<< <<pB, v1>>, <<pAv, vV1>> >>)>>,
        <<"scripts", JList(<<pA, pB>>)>>,
        <<"headers", JDict(<< <<"Server", JStr(pAv)>>, <<"via", JStr(pA)>> >>)>>,
        <<"cookies", JDict(<< <<"sid", JStr(pA)>> >>)>>,
        <<"meta", JDict(<< <<"generator", JDict(<< <<pAv, v1>> >>)>> >>)>>,
        <<"dns", JDict(<< <<"txt", JDict(<< <<pA, v1>> >>)>> >>)>>,
        <<"certIssuer", JList(<<pB, pA>>)>>,
        <<"cats", JList(<<1, 2>>)>> >>)

GoodCategories ==
    << <<"1", JDict(<< <<"name", "CMS">>, <<"groups", JList(<<1>>)>> >>)>>,
       <<"2", JDict(<< <<"name", "Blogs">>, <<"groups", JList(<<2>>)>> >>)>> >>

GoodGroups ==
    << <<"1", JDict(<< <<"name", "Content">> >>)>>,
       <<"2", JDict(<< <<"name", "Media">> >>)>> >>

\* well-formed fingerprints; Alpha and Gamma tie, Big comes last and scores highest
GoodStore ==
    [technologies |-> <<
        Tech("Alpha", << <<"url", JStr(pA)>>, <<"cats", JList(<<1>>)>> >>),
        Tech("Beta", << <<"html", JDict(<< <<pAv, v1>> >>)>>,
                        <<"cookies", JDict(<< <<"sid", JDict(<< <<pAv, v1>> >>)>> >>)>>,
                        <<"cats", JList(<<2, 1>>)>> >>),
        Tech("Gamma", << <<"url", JStr(pA)>>,
                         <<"headers", JDict(<< <<"Server", JDict(<< <<pAopt, v1>> >>)>> >>)>>,
                         <<"cats", JList(<<3, 2>>)>> >>),
        BigTech >>,
     categories |-> GoodCategories,
     groups |-> GoodGroups]

\* fingerprints with invalid regexes beside valid ones
InvalidRegexStore ==
    [technologies |-> <<
        Tech("Alpha", << <<"url", JStr(pBad)>>, <<"cats", JList(<<1>>)>> >>),
        Tech("Beta", << <<"html", JDict(<< <<pBad, v1>>, <<pAv, v1>> >>)>>,
                        <<"scripts", JList(<<pBad, pB>>)>>,
                        <<"cats", JList(<<1>>)>> >>),
        Tech("Gamma", << <<"url", JList(<<pBad, pAmeta>>)>>,
                         <<"cookies", JDict(<< <<"sid", JList(<<pBad, pA>>)>> >>)>>,
                         <<"cats", JList(<<2>>)>> >>) >>,
     categories |-> GoodCategories,
     groups |-> GoodGroups]

\* entries that are not shaped as a technology
MalformedStore ==
    [technologies |-> <<
        <<"Junk", JStr(tA)>>,
        Tech("Alpha", << <<"url", JStr(pA)>>, <<"cats", JList(<<1>>)>> >>),
        Tech("Beta", << <<"headers", JList(<<pA>>)>>, <<"cats", JList(<<1>>)>> >>),
        Tech("Gamma", << <<"html", JNum(5)>>, <<"cats", JList(<<2>>)>> >>),
        Tech("Delta", << <<"meta", JDict(<< <<"generator", JDict(<< <<pAv, JNum(1)>> >>)>> >>)>>,
                         <<"cats", JList(<<2>>)>> >>) >>,
     categories |-> GoodCategories,
     groups |-> GoodGroups]

\* category and group tables with absent ids, entries without a name, an entry that
\* is no dict, two categories that share a group, and two groups of one name
CategoryStore ==
    [technologies |-> <<
        Tech("Alpha", << <<"url", JStr(pA)>>, <<"cats", JList(<<1, 2>>)>> >>),
        Tech("Beta", << <<"cookies", JDict(<< <<"sid", JStr(pA)>> >>)>>,
                        <<"cats", JList(<<3, 4, 5, 2>>)>> >>),
        Tech("Gamma", << <<"meta", JDict(<< <<"generator", JStr(pA)>> >>)>>,
                         <<"cats", JList(<<2, 1>>)>> >>) >>,
     categories |->
        << <<"1", JDict(<< <<"name", "CMS">>, <<"groups", JList(<<1, 2>>)>> >>)>>,
           <<"2", JDict(<< <<"name", "Blogs">>, <<"groups", JList(<<2>>)>> >>)>>,
           <<"3", JDict(<< <<"groups", JList(<<3, 5>>)>> >>)>>,
           <<"4", JStr(tA)>> >>,
     groups |->
        << <<"1", JDict(<< <<"name", "Content">> >>)>>,
           <<"2", JDict(<< <<"name", "Media">> >>)>>,
           <<"3", JDict(<< <<"name", "Media">> >>)>>,
           <<"4", JDict(<<>>)>> >>]

\* a technology whose cats is no list, and a category whose groups is no list
MalformedCategoryStore ==
    [technologies |-> <<
        Tech("Alpha", << <<"url", JStr(pB)>>, <<"cats", JNum(7)>> >>),
        Tech("Beta", << <<"url", JStr(pA)>>, <<"cats", JList(<<1>>)>> >>),
        Tech("Gamma", << <<"cookies", JDict(<< <<"sid", JStr(pA)>> >>)>>,
                         <<"cats", JList(<<1, 2>>)>> >>) >>,
     categories |->
        << <<"1", JDict(<< <<"name", "CMS">>, <<"groups", JList(<<1>>)>> >>)>>,
           <<"2", JDict(<< <<"name", "Blogs">>, <<"groups", JNum(3)>> >>)>> >>,
     groups |-> GoodGroups]

Stores ==
    <<GoodStore, InvalidRegexStore, MalformedStore, CategoryStore, MalformedCategoryStore>>

\* a tag of a parsed document: its src, name, property and http-equiv attributes
\* ("" when absent) and its content attribute or its string
MetaBy(name, property, equiv, content) ==
    [tag |-> "meta", hasSrc |-> FALSE, src |-> <<>>, name |-> name,
     property |-> property, equiv |-> equiv, text |-> content]
ScriptTag(src) == [MetaBy("", "", "", <<>>) EXCEPT !.tag = "script", !.hasSrc = TRUE, !.src = src]
InlineScript(body) == [MetaBy("", "", "", body) EXCEPT !.tag = "script"]
MetaTag(name, content) == MetaBy(name, "", "", content)

NoHtml == [text |-> <<>>, tags |-> <<>>, rejects |-> {}]

EmptyBundle ==
    [url |-> <<>>, html |-> NoHtml, headers |-> <<>>, cookies |-> <<>>,
     scripts |-> <<>>, meta |-> <<>>, dns |-> <<>>, certIssuer |-> <<>>]

\* every signal present
RichBundle ==
    [url |-> tA,
     html |-> [text |-> tUpA2, tags |-> <<ScriptTag(tA), ScriptTag(tB1)>>, rejects |-> {"lxml"}],
     headers |-> << <<"server", tA1>>, <<"via", tA>> >>,
     cookies |-> << <<"sid", tA1>> >>,
     scripts |-> <<tA, tB>>,
     meta |-> << <<"generator", tA1>> >>,
     dns |-> << <<"TXT", <<tA, tA1>> >> >>,
     certIssuer |-> tA]

UrlBundle ==
    [EmptyBundle EXCEPT
        !.url = tA1,
        !.headers = << <<"server", tA1>> >>,
        !.cookies = << <<"sid", tA1>> >>]

HtmlBundle ==
    [EmptyBundle EXCEPT
        !.html = [text |-> tA1, tags |-> <<ScriptTag(tB)>>, rejects |-> {}],
        !.headers = << <<"Server", tA>> >>]

\* both parsers raise on this markup
RejectedBundle ==
    [EmptyBundle EXCEPT
        !.html = [text |-> tB, tags |-> <<ScriptTag(tB)>>, rejects |-> {"lxml", "html.parser"}],
        !.scripts = <<tB1>>,
        !.meta = << <<"generator", tA1>> >>]

MetaBundle ==
    [EmptyBundle EXCEPT
        !.url = tB,
        !.meta = << <<"generator", tA1>> >>,
        !.dns = << <<"TXT", <<tB, tA>> >> >>]

\* a header whose name is in capitals
UpperBundle == [EmptyBundle EXCEPT !.url = tA, !.headers = << <<"SERVER", tA1>> >>]

Bundles ==
    <<EmptyBundle, RichBundle, UrlBundle, HtmlBundle, RejectedBundle, MetaBundle, UpperBundle>>

(***************************************************************************)
(* parse_har_file (har.py).  A capture is a file that can or cannot be     *)
(* opened and decoded, and the JSON value it holds.                        *)
(***************************************************************************)
LowerText(t) == [i \in DOMAIN t |-> Lower(t[i])]

\* sub in t
Contains(t, sub) == \E i \in 0..(Len(t) - Len(sub)) : SubSeq(t, i + 1, i + Len(sub)) = sub

\* t.endswith(suffix)
EndsWith(t, suffix) ==
    Len(t) >= Len(suffix) /\ SubSeq(t, Len(t) - Len(suffix) + 1, Len(t)) = suffix

sHtml == <<"h", "t", "m", "l">>
sJavascript == <<"j", "a", "v", "a", "s", "c", "r", "i", "p", "t">>
sDotJs == <<".", "j", "s">>
sBase64 == <<"b", "a", "s", "e", "6", "4">>

\* the value of an expression whose evaluation raised
JErr == [k |-> "err", v |-> 0]

\* j.get(key, default): AttributeError when j is no dict
PyGet(j, key, default) == IF j.k = "dict" THEN GetOr(j.v, key, default) ELSE JErr

\* x or ""
OrEmpty(j) == IF j.k = "err" \/ Truthy(j) THEN j ELSE JStr(<<>>)

\* iter(j): the items of a list, the keys of a dict, the characters of a string;
\* TypeError for a number or None
Iterate(j) ==
    CASE j.k = "list" -> [raised |-> FALSE, items |-> j.v]
      [] j.k = "dict" -> [raised |-> FALSE, items |-> [i \in DOMAIN j.v |-> JStr(<<j.v[i][1]>>)]]
      [] j.k = "str" -> [raised |-> FALSE, items |-> [i \in DOMAIN j.v |-> JStr(<<j.v[i]>>)]]
      [] OTHER -> [raised |-> TRUE, items |-> <<>>]

\* a set member or dict key must be hashable
Hashable(j) == j.k \notin {"list", "dict"}

EMPTY_HAR_RESULT ==
    [url |-> JStr(<<>>), html |-> JStr(<<>>), headers |-> <<>>, cookies |-> <<>>,
     scripts |-> <<>>, meta |-> <<>>]

\* the containers of EMPTY_HAR_RESULT, which EMPTY_HAR_RESULT.copy() does not copy
Containers == {"headers", "cookies", "scripts", "meta"}

\* the items of the four containers of EMPTY_HAR_RESULT as the module is imported
EmptyContainers == [c \in Containers |-> <<>>]

\* EMPTY_HAR_RESULT.copy(): a new dict whose values are the objects of
\* EMPTY_HAR_RESULT, `shared` being what its containers hold now
ShallowCopy(shared) ==
    [url |-> JStr(<<>>), html |-> JStr(<<>>), headers |-> shared["headers"],
     cookies |-> shared["cookies"], scripts |-> shared["scripts"], meta |-> shared["meta"]]

\* no bundle returned yet
NoBundle == [returned |-> FALSE, result |-> ShallowCopy(EmptyContainers), aliased |-> {}]

\* the container of a bundle
ContainerOf(result, c) ==
    IF c = "headers" THEN result.headers
    ELSE IF c = "cookies" THEN result.cookies
    ELSE IF c = "scripts" THEN result.scripts ELSE result.meta

\* the bundle with the items of its container c replaced
WithContainer(result, c, items) ==
    IF c = "headers" THEN [result EXCEPT !.headers = items]
    ELSE IF c = "cookies" THEN [result EXCEPT !.cookies = items]
    ELSE IF c = "scripts" THEN [result EXCEPT !.scripts = items]
    ELSE [result EXCEPT !.meta = items]

\* e.get("response", {}).get("content", {}).get("mimeType", "")
MimeOf(e) ==
    PyGet(PyGet(PyGet(e, "response", JDict(<<>>)), "content", JDict(<<>>)),
          "mimeType", JStr(<<>>))

Found(e) == [raised |-> FALSE, entry |-> e]
NotFound == [raised |-> TRUE, entry |-> JNull]

\* MainScan that takes entries[0] whatever the mime types
MainScanFirstEntry(entries, i) == Found(entries[1])

RECURSIVE MainScan(_, _)
\* lines 55-63: the first entry whose mime type has "html", else entries[0]; the
\* generator raises on an entry that has no mime type string to lower
MainScan(entries, i) ==
    IF i > Len(entries) THEN Found(entries[1])
    ELSE IF MimeOf(entries[i]).k # "str" THEN NotFound
    ELSE IF Contains(LowerText(MimeOf(entries[i]).v), sHtml) THEN Found(entries[i])
    ELSE MainScan(entries, i + 1)

\* lines 73-76 for one header h, on the dict built so far
WithHeader(h, acc) ==
    IF acc.raised \/ h.k # "dict" \/ OrEmpty(PyGet(h, "name", JNull)).k # "str"
    THEN [raised |-> TRUE, dict |-> <<>>]
    ELSE IF OrEmpty(PyGet(h, "name", JNull)).v = <<>> THEN acc
    ELSE [raised |-> FALSE,
          dict |-> SetItem(acc.dict, JStr(LowerText(OrEmpty(PyGet(h, "name", JNull)).v)),
                           OrEmpty(PyGet(h, "value", JNull)))]

\* lines 82-85 for one cookie c, on the dict built so far
WithCookie(c, acc) ==
    IF acc.raised \/ c.k # "dict" THEN [raised |-> TRUE, dict |-> <<>>]
    ELSE IF ~Truthy(PyGet(c, "name", JNull)) THEN acc
    ELSE IF ~Hashable(PyGet(c, "name", JNull)) THEN [raised |-> TRUE, dict |-> <<>>]
    ELSE [raised |-> FALSE,
          dict |-> SetItem(acc.dict, PyGet(c, "name", JNull), OrEmpty(PyGet(c, "value", JNull)))]

RECURSIVE HeadersFrom(_, _, _)
\* lines 72-76: the loop over the headers from position i
HeadersFrom(items, i, acc) ==
    IF i > Len(items) \/ acc.raised THEN acc
    ELSE HeadersFrom(items, i + 1, WithHeader(items[i], acc))

RECURSIVE CookiesFrom(_, _, _)
\* lines 81-85: the loop over the cookies from position i
CookiesFrom(items, i, acc) ==
    IF i > Len(items) \/ acc.raised THEN acc
    ELSE CookiesFrom(items, i + 1, WithCookie(items[i], acc))

\* lines 71-77: the dict headers of response_obj.get("headers", [])
HeadersOf(j) ==
    IF Iterate(j).raised THEN [raised |-> TRUE, dict |-> <<>>]
    ELSE HeadersFrom(Iterate(j).items, 1, [raised |-> FALSE, dict |-> <<>>])

\* lines 80-86: the dict cookies of response_obj.get("cookies", [])
CookiesOf(j) ==
    IF Iterate(j).raised THEN [raised |-> TRUE, dict |-> <<>>]
    ELSE CookiesFrom(Iterate(j).items, 1, [raised |-> FALSE, dict |-> <<>>])

\* base64.b64decode(text).decode("utf-8", errors="ignore") on the texts of the
\* captures: one of them is base64, the others have incorrect padding
B64Decode(text) ==
    IF text = <<"Y", "W", "I", "=">> THEN [raised |-> FALSE, text |-> <<"a", "b">>]
    ELSE IF text = <<"Y", "T", "E", "=">> THEN [raised |-> FALSE, text |-> <<"a", "1">>]
    ELSE [raised |-> TRUE, text |-> text]

\* lines 89-97: the html of the bundle from the content of the main entry
HtmlOf(content) ==
    IF ~Truthy(OrEmpty(PyGet(content, "text", JStr(<<>>)))) THEN JStr(<<>>)
    ELSE IF PyGet(content, "encoding", JNull) = JStr(sBase64)
            /\ PyGet(content, "text", JNull).k = "str"
            /\ ~B64Decode(PyGet(content, "text", JNull).v).raised
         THEN JStr(B64Decode(PyGet(content, "text", JNull).v).text)
         ELSE PyGet(content, "text", JNull)


\* lines 102-106 for one entry, on the list script_candidates built so far
WithCandidate(entry, acc) ==
    IF \/ acc.raised
       \/ OrEmpty(PyGet(PyGet(entry, "request", JDict(<<>>)), "url", JStr(<<>>))).k = "err"
       \/ OrEmpty(MimeOf(entry)).k # "str"
    THEN [raised |-> TRUE, list |-> <<>>]
    ELSE IF Contains(LowerText(OrEmpty(MimeOf(entry)).v), sJavascript)
    THEN [raised |-> FALSE,
          list |-> Append(acc.list, OrEmpty(PyGet(PyGet(entry, "request", JDict(<<>>)),
                                                  "url", JStr(<<>>))))]
    ELSE IF OrEmpty(PyGet(PyGet(entry, "request", JDict(<<>>)), "url", JStr(<<>>))).k # "str"
    THEN [raised |-> TRUE, list |-> <<>>]
    ELSE IF EndsWith(PyGet(PyGet(entry, "request", JDict(<<>>)), "url", JStr(<<>>)).v, sDotJs)
    THEN [raised |-> FALSE,
          list |-> Append(acc.list, PyGet(PyGet(entry, "request", JDict(<<>>)),
                                          "url", JStr(<<>>)))]
    ELSE acc

RECURSIVE CandidatesFrom(_, _, _)
\* lines 101-106: the loop over the entries from position i
CandidatesFrom(entries, i, acc) ==
    IF i > Len(entries) \/ acc.raised THEN acc
    ELSE CandidatesFrom(entries, i + 1, WithCandidate(entries[i], acc))

\* lines 100-106: the request urls of the entries that are scripts
ScriptCandidates(entries) == CandidatesFrom(entries, 1, [raised |-> FALSE, list |-> <<>>])

\* s.string[:500]
InlineLimit == 500

\* the string of a script one character longer than the limit of line 125
LongScript == [i \in 1..(InlineLimit + 1) |-> "a"]

\* the documents the markup of the captures parses to, with the parsers that raise
\* on it
Documents ==
    << [text |-> <<"a", "b">>,
        tags |-> <<MetaTag("generator", <<"a", "1">>), MetaBy("", "og", "", <<"b">>),
                   MetaBy("", "", "refresh", <<"a">>), MetaTag("empty", <<>>),
                   MetaTag("generator", <<"b", "1">>), InlineScript(<<"b">>),
                   ScriptTag(<<"a">>), InlineScript(<<"a">>), InlineScript(<<"b">>),
                   InlineScript(<<>>)>>,
        rejects |-> {}],
       [text |-> <<"a", "1">>, tags |-> <<MetaTag("generator", <<"a">>), InlineScript(<<"b">>)>>,
        rejects |-> {"lxml"}],
       [text |-> <<"b">>, tags |-> <<InlineScript(<<"b">>)>>, rejects |-> {"lxml", "html.parser"}],
       [text |-> <<"b", "b">>,
        tags |-> <<InlineScript(LongScript), InlineScript(<<"b">>),
                   InlineScript(SubSeq(LongScript, 1, InlineLimit))>>,
        rejects |-> {}] >>

\* the document of a text; a text that is no markup has no tags
DocumentOf(text) ==
    IF \E i \in DOMAIN Documents : Documents[i].text = text
    THEN Documents[CHOOSE i \in DOMAIN Documents : Documents[i].text = text]
    ELSE [text |-> text, tags |-> <<>>, rejects |-> {}]

\* lines 110-113: BeautifulSoup(html, "lxml"), and when it raises
\* BeautifulSoup(html, "html.parser"), which is in no try
HarSoup(html) ==
    IF html.k # "str" \/ {"lxml", "html.parser"} \subseteq DocumentOf(html.v).rejects
    THEN [raised |-> TRUE, tags |-> <<>>]
    ELSE [raised |-> FALSE, tags |-> DocumentOf(html.v).tags]

\* tag.get("name") or tag.get("property") or tag.get("http-equiv")
MetaName(tag) ==
    IF tag.name # "" THEN tag.name ELSE IF tag.property # "" THEN tag.property ELSE tag.equiv

RECURSIVE MetaOf(_, _)
\* lines 115-121: the dict meta from the meta tags, `acc` being the dict so far
MetaOf(tags, acc) ==
    IF tags = <<>> THEN acc
    ELSE MetaOf(Tail(tags),
                IF Head(tags).tag = "meta" /\ MetaName(Head(tags)) # ""
                   /\ Head(tags).text # <<>>
                THEN SetItem(acc, MetaName(Head(tags)), Head(tags).text)
                ELSE acc)

\* lines 123-125: the strings of the script tags without src
InlineScripts(tags) ==
    LET inline == SelectSeq(tags, LAMBDA g : g.tag = "script" /\ g.src = <<>>
                                             /\ g.text # <<>>)
    IN [i \in DOMAIN inline |->
            JStr(SubSeq(inline[i].text, 1, Min(InlineLimit, Len(inline[i].text))))]

\* the candidates, repeats kept
UniqueKeepingRepeats(candidates, seen) == seen \o candidates

RECURSIVE Unique(_, _)
\* lines 128-133: the first occurrences of the candidates, `seen` being those kept
Unique(candidates, seen) ==
    IF candidates = <<>> THEN seen
    ELSE Unique(Tail(candidates),
                IF Head(candidates) \in Range(seen) THEN seen
                ELSE Append(seen, Head(candidates)))

(***************************************************************************)
(* Captures.                                                               *)
(***************************************************************************)
NameValue(name, value) == JDict(<< <<"name", JStr(name)>>, <<"value", JStr(value)>> >>)

HarEntry(url, mime, headers, cookies, content) ==
    JDict(<< <<"request", JDict(<< <<"url", url>> >>)>>,
             <<"response", JDict(<< <<"headers", JList(headers)>>,
                                    <<"cookies", JList(cookies)>>,
                                    <<"content", JDict(<< <<"mimeType", mime>> >> \o content)>> >>)>> >>)

Har(entries) == JDict(<< <<"log", JDict(<< <<"entries", JList(entries)>> >>)>> >>)

File(data) == [readable |-> TRUE, json |-> TRUE, data |-> data]

mHtml == JStr(<<"x", "/", "H", "T", "M", "L">>)
mJs == JStr(<<"x", "/">> \o sJavascript)
mCss == JStr(<<"c", "s", "s">>)

\* a script of mime type javascript, a page, a script by its url, and a style sheet
ScriptEntry == HarEntry(JStr(<<"b">>), mJs, <<>>, <<>>, <<>>)
PageEntry(text) ==
    HarEntry(JStr(<<"a">>), mHtml,
             <<NameValue(<<"A">>, <<"a", "1">>), NameValue(<<"a">>, <<"b">>),
               JDict(<< <<"value", JStr(<<"b">>)>> >>)>>,
             <<NameValue(<<"A">>, <<"a">>), JDict(<< <<"name", JStr(<<"b">>)>> >>)>>,
             text)
UrlScriptEntry == HarEntry(JStr(<<"a">> \o sDotJs), mCss, <<>>, <<>>, <<>>)
StyleEntry == HarEntry(JStr(<<"c">>), mCss, <<NameValue(<<"B">>, <<"b">>)>>, <<>>, <<>>)

Text(t) == << <<"text", JStr(t)>> >>
Base64(t) == << <<"text", JStr(t)>>, <<"encoding", JStr(sBase64)>> >>

Captures ==
    << [readable |-> FALSE, json |-> FALSE, data |-> JNull],
       [readable |-> TRUE, json |-> FALSE, data |-> JNull],
       File(JList(<<>>)),
       File(JDict(<< <<"log", JNull>> >>)),
       File(Har(<<>>)),
       File(JDict(<<>>)),
       File(Har(<<ScriptEntry, PageEntry(Text(<<"a", "b">>)), UrlScriptEntry, ScriptEntry>>)),
       File(Har(<<StyleEntry, PageEntry(Base64(<<"Y", "W", "I", "=">>))>>)),
       File(Har(<<StyleEntry, UrlScriptEntry>>)),
       File(Har(<<PageEntry(Base64(<<"a", "1">>))>>)),
       File(Har(<<PageEntry(Text(<<"b">>)), StyleEntry>>)),
       File(Har(<<HarEntry(JStr(<<"c">>), JNull, <<>>, <<>>, <<>>), PageEntry(Text(<<"a">>))>>)),
       File(Har(<<PageEntry(Text(<<"a">>)), HarEntry(JStr(<<"c">>), JNull, <<>>, <<>>, <<>>)>>)),
       File(Har(<<PageEntry(Text(<<"a">>)), JNum(5)>>)),
       File(Har(<<JDict(<< <<"request", JNull>> >>)>>)),
       File(Har(<<HarEntry(JNull, mCss, <<JNum(5)>>, <<>>, <<>>)>>)),
       File(Har(<<PageEntry(Text(<<"b", "b">>)), ScriptEntry>>)) >>


(***************************************************************************)
(* data_loader: the three module-level caches, the local files and the     *)
(* remote data set.                                                        *)
(***************************************************************************)
MaxLoads == 3
MaxChanges == 1

\* the tables, in the order ensure_fingerprint_data removes their files
TableNames == <<"technologies", "categories", "groups">>

\* the data set as published at epoch n: a dict that is not empty
Table(n) == JDict(<< <<"epoch", JNum(n)>> >>)

\* the module after import: no cache filled, _DATA_READY False; `loads`, `read`,
\* `op`, `force`, `ret` and `refreshed` record the calls: the loads of each table
\* from its source since the caches were last cleared, the tables the last call
\* loaded, the last call and what it returned, and whether a call with force has
\* been made
NoLoader ==
    [cache |-> [t \in Range(TableNames) |-> JNull],
     ready |-> FALSE,
     files |-> [t \in Range(TableNames) |-> JNull],
     remote |-> TRUE,
     epoch |-> 1,
     loads |-> [t \in Range(TableNames) |-> 0],
     read |-> {},
     op |-> "none",
     force |-> FALSE,
     ret |-> JNull,
     calls |-> 0,
     changes |-> 0,
     refreshed |-> FALSE]

\* _GLOBAL_DETECTOR is None; `tables` are the tables a TechDetector refers to, and
\* `used` those the last call of detect_technologies analyzed against
NoSingleton ==
    [made |-> FALSE,
     tables |-> [t \in Range(TableNames) |-> JNull],
     used |-> [t \in Range(TableNames) |-> JNull],
     calls |-> 0]

\* _load_json_file: the JSON of the file, None when there is no file or it does
\* not load
LoadJsonFile(l, t) == l.files[t]

\* _download_json: the JSON document, None when the download fails
DownloadJson(l) == IF l.remote THEN Table(l.epoch) ELSE JNull

\* the cache is never hit
CacheHitNever(l, t) == FALSE

\* `X_CACHE is not None`
CacheHit(l, t) == l.cache[t] # JNull

\* the load takes the remote branch: lines 160 and 125, 140
GoesRemote(l, t) ==
    IF t = "technologies" THEN LoadJsonFile(l, t).k # "dict"
    ELSE ~Truthy(LoadJsonFile(l, t))

\* the dict the load builds: lines 159-180 and 124-129, 139-144
Loaded(l, t) ==
    IF ~GoesRemote(l, t) THEN LoadJsonFile(l, t)
    ELSE IF Truthy(DownloadJson(l)) THEN DownloadJson(l)
    ELSE JDict(<<>>)

\* load_technologies, load_categories, load_groups: the module after the call;
\* `saved` tells whether _save_json_file can write the files
Load(l, t, saved) ==
    IF CacheHit(l, t) THEN [l EXCEPT !.ret = l.cache[t]]
    ELSE [l EXCEPT !.cache[t] = Loaded(l, t),
                   !.files[t] = IF GoesRemote(l, t) /\ Truthy(Loaded(l, t)) /\ saved
                                THEN Loaded(l, t) ELSE @,
                   !.loads[t] = @ + 1,
                   !.read = @ \cup {t},
                   !.ret = Loaded(l, t)]

\* lines 70-83: the caches cleared and the files removed; unlink can raise, and
\* then only the files of the first k tables are gone
Cleared(l, force, k) ==
    IF ~force THEN l
    ELSE [l EXCEPT !.cache = [t \in Range(TableNames) |-> JNull],
                   !.files = [t \in Range(TableNames) |->
                                 IF \E i \in 1..k : TableNames[i] = t THEN JNull ELSE @[t]],
                   !.loads = [t \in Range(TableNames) |-> 0],
                   !.ready = FALSE,
                   !.refreshed = TRUE]

\* lines 85-91
LoadAll(l, saved) ==
    IF l.ready THEN l
    ELSE [Load(Load(Load(l, "groups", saved), "categories", saved), "technologies", saved)
            EXCEPT !.ready = TRUE]

\* ensure_fingerprint_data(force)
EnsureFingerprintData(l, force, k, saved) ==
    [LoadAll(Cleared(l, force, k), saved) EXCEPT !.ret = JNull]

\* a call begins: it has loaded nothing yet
Begun(l, op, force) ==
    [l EXCEPT !.op = op, !.force = force, !.read = {}, !.calls = @ + 1]

(***************************************************************************)
(* The state of a TechDetector and of the callers of its analyze method.   *)
(***************************************************************************)
VARIABLES
    technologies,   \* self.technologies: the dict payload name -> tech_data
    categories,     \* self.categories
    groups,         \* self.groups
    dicts,          \* the dict objects analyze creates, by identity (their address)
    detected,       \* self.detected: the identity of the dict it refers to
    callers,        \* the threads that call analyze on the detector
    offered,        \* the bundles (positions in Bundles) the callers pass
    pc,             \* where each caller is in analyze
    budget,         \* the analyze calls each caller may still start
    bundle,         \* the arguments of each caller's current call
    idx,            \* the position of the loop of line 93 in self.technologies
    iter,           \* the dict iterator of line 250: [obj, pos, size]
    results,        \* the local list results of _format_results
    ret,            \* the list the caller's call returned
    har,            \* parse_har_file: its caller's position in it, and its locals
    probe,          \* a call of _check_pattern_with_version: arguments and result
    loader,         \* the module data_loader: its caches, and its files and remote
    earlier,        \* the bundles (positions in Bundles) of the calls that have ended
    singleton       \* _GLOBAL_DETECTOR of the module analyzer

vars == <<technologies, categories, groups, dicts, detected, callers, offered, pc, budget,
          bundle, idx, iter, results, ret, har, probe, loader, earlier, singleton>>

\* what no step of analyze assigns
fixed == <<technologies, categories, groups, callers, offered, har, probe, loader, earlier,
          singleton>>

Threads == {1, 2}

\* no call of _check_pattern_with_version
NoProbe == [pc |-> "idle", text |-> <<>>, patterns |-> JNull, result |-> Result(FALSE, JNull)]

\* no call of parse_har_file begun, and n calls to come; `aliased` names the
\* containers of the bundle that are those of EMPTY_HAR_RESULT itself, `shared`
\* holds the items of the containers of EMPTY_HAR_RESULT, and `previous` is the
\* bundle the call before returned, which its caller still holds
NoHar(n) ==
    [pc |-> "idle", budget |-> n, capture |-> 0, data |-> JNull, entries |-> JNull,
     main |-> JNull, candidates |-> <<>>, result |-> EMPTY_HAR_RESULT, aliased |-> {},
     shared |-> EmptyContainers, previous |-> NoBundle]

NoIter == [obj |-> 0, pos |-> 0, size |-> 0]

\* the addresses a dict can have: one per caller and one more are enough, since
\* a dict that nothing refers to is freed and its address used again
Objects == 1..(Cardinality(Threads) + 1)

\* the dicts a running iterator refers to, and those that are referred to at all
IterHeld == {iter[t].obj : t \in {u \in Threads : pc[u] = "format"}}
Referenced == {detected} \cup IterHeld

\* the address of a new dict
Fresh == CHOOSE o \in Objects \ Referenced : \A q \in Objects \ Referenced : o <= q

\* TechDetector.__init__ (lines 27-32) with the tables of one store, and no call begun
InitWith(cs, n, ss, bs) ==
    /\ \E s \in ss :
        /\ technologies = Stores[s].technologies
        /\ categories = Stores[s].categories
        /\ groups = Stores[s].groups
    /\ dicts = [o \in Objects |-> <<>>]
    /\ detected = 1
    /\ callers = cs
    /\ offered = bs
    /\ pc = [t \in Threads |-> "idle"]
    /\ budget = [t \in Threads |-> n]
    /\ bundle = [t \in Threads |-> EmptyBundle]
    /\ idx = [t \in Threads |-> 0]
    /\ iter = [t \in Threads |-> NoIter]
    /\ results = [t \in Threads |-> <<>>]
    /\ ret = [t \in Threads |-> <<>>]
    /\ har = NoHar(0)
    /\ probe = NoProbe
    /\ loader = NoLoader
    /\ earlier = {}
    /\ singleton = NoSingleton

\* one caller
Init == InitWith({1}, MaxCalls, DOMAIN Stores, DOMAIN Bundles)

\* two callers, one call each
InitConc == InitWith(Threads, 1, {1, 3}, {2, 3, 4})

\* analyze is entered (lines 77-91): self.detected = {} makes a new dict
\* self.detected is left as the call found it
DetectedKept == [obj |-> detected, content |-> dicts[detected]]

\* line 77, self.detected = {}: a new dict, which is empty
DetectedAtCall == [obj |-> Fresh, content |-> <<>>]

Call(t) ==
    /\ pc[t] \in {"idle", "done", "raised"}
    /\ budget[t] > 0
    /\ \E b \in offered : bundle' = [bundle EXCEPT ![t] = Bundles[b]]
    /\ budget' = [budget EXCEPT ![t] = @ - 1]
    /\ dicts' = [o \in Objects |-> IF o \in IterHeld THEN dicts[o]
                                   ELSE IF o = DetectedAtCall.obj THEN DetectedAtCall.content
                                   ELSE <<>>]
    /\ detected' = DetectedAtCall.obj
    /\ earlier' = IF pc[t] = "idle" THEN earlier
                  ELSE earlier \cup {i \in DOMAIN Bundles : Bundles[i] = bundle[t]}
    /\ idx' = [idx EXCEPT ![t] = 1]
    /\ pc' = [pc EXCEPT ![t] = "loop"]
    /\ iter' = [iter EXCEPT ![t] = NoIter]
    /\ results' = [results EXCEPT ![t] = <<>>]
    /\ ret' = [ret EXCEPT ![t] = <<>>]
    /\ UNCHANGED <<technologies, categories, groups, callers, offered, har, probe, loader,
                   singleton>>

\* OutcomeOf without the test of line 178
OutcomeOfAlways(td, r) ==
    [raised |-> r.raised,
     store |-> ~r.raised,
     entry |-> IF r.raised THEN NoChecks ELSE DetectedEntry(td, r)]

\* lines 178-185: whether the pass raised, and the entry it stores if any
OutcomeOf(td, r) ==
    [raised |-> r.raised,
     store |-> ~r.raised /\ r.matches # <<>>,
     entry |-> IF r.raised THEN NoChecks ELSE DetectedEntry(td, r)]

\* the outcome of one pass of the loop of line 93 on the item tech of the table
LoopOutcome(tech, b) ==
    IF ~IsDict(tech[2]) THEN [raised |-> FALSE, store |-> FALSE, entry |-> NoChecks]
    ELSE OutcomeOf(tech[2].v, TechChecks(tech[2].v, b))

\* lines 178-185: self.detected[tech_name] = {...} when the match list is not empty
Stored(tech_name, o) ==
    /\ ~o.raised
    /\ dicts' = IF o.store
                THEN [dicts EXCEPT ![detected] = SetItem(@, tech_name, o.entry)]
                ELSE dicts

\* one pass of the loop of line 93 that ends normally (lines 94-185)
LoopStep(t) ==
    /\ pc[t] = "loop"
    /\ idx[t] <= Len(technologies)
    /\ Stored(technologies[idx[t]][1], LoopOutcome(technologies[idx[t]], bundle[t]))
    /\ idx' = [idx EXCEPT ![t] = @ + 1]
    /\ UNCHANGED <<fixed, detected, pc, budget, bundle, iter, results, ret>>

\* one pass of the loop of line 93 in which a check raises: analyze ends with it
LoopRaise(t) ==
    /\ pc[t] = "loop"
    /\ idx[t] <= Len(technologies)
    /\ LoopOutcome(technologies[idx[t]], bundle[t]).raised
    /\ pc' = [pc EXCEPT ![t] = "raised"]
    /\ UNCHANGED <<fixed, dicts, detected, budget, bundle, idx, iter, results, ret>>

\* line 187 and line 250: _format_results starts to iterate self.detected.items()
FormatStart(t) ==
    /\ pc[t] = "loop"
    /\ idx[t] > Len(technologies)
    /\ iter' = [iter EXCEPT ![t] = [obj |-> detected, pos |-> 0, size |-> Len(dicts[detected])]]
    /\ results' = [results EXCEPT ![t] = <<>>]
    /\ pc' = [pc EXCEPT ![t] = "format"]
    /\ UNCHANGED <<fixed, dicts, detected, budget, bundle, idx, ret>>

\* the dict iterator raises RuntimeError: the dict changed size during iteration
IterChanged(t) == Len(dicts[iter[t].obj]) # iter[t].size

RECURSIVE InsertAscending(_, _)
\* x put into an ascending list of numbers
InsertAscending(x, sorted) ==
    IF sorted = <<>> THEN <<x>>
    ELSE IF Head(sorted) <= x THEN <<Head(sorted)>> \o InsertAscending(x, Tail(sorted))
    ELSE <<x>> \o sorted

RECURSIVE Ascending(_)
Ascending(s) == IF s = <<>> THEN <<>> ELSE InsertAscending(Head(s), Ascending(Tail(s)))

\* TechnologiesAfterFormat with cat_ids.sort() before the loop of line 264: cat_ids
\* is the list of the table itself
TechnologiesAfterFormatSortingCats(techs, tech_name) ==
    [i \in DOMAIN techs |->
        IF techs[i][1] = tech_name /\ IsDict(techs[i][2]) /\ HasKey(techs[i][2].v, "cats")
           /\ Get(techs[i][2].v, "cats").k = "list"
        THEN <<tech_name, JDict(SetItem(techs[i][2].v, "cats",
                                       JList(Ascending(Get(techs[i][2].v, "cats").v))))>>
        ELSE techs[i]]

\* self.technologies after lines 251-280 for the item tech_name: tech_info and its
\* list cat_ids (line 261) are objects of the table, and the lines read them and
\* write to result and group_ids only
TechnologiesAfterFormat(techs, tech_name) == techs

\* one pass of the loop of line 250 (lines 251-280)
FormatStep(t) ==
    /\ pc[t] = "format"
    /\ ~IterChanged(t)
    /\ iter[t].pos < iter[t].size
    /\ LET item == dicts[iter[t].obj][iter[t].pos + 1]
       IN /\ ~TechFormatRaises(item[1], technologies, categories)
          /\ \E order \in GroupOrders(item[1], technologies, categories) :
                results' = [results EXCEPT ![t] =
                    Append(@, FormatOne(item[1], item[2], technologies, categories,
                                        groups, order))]
    /\ iter' = [iter EXCEPT ![t].pos = @ + 1]
    /\ technologies' = TechnologiesAfterFormat(technologies,
                                               dicts[iter[t].obj][iter[t].pos + 1][1])
    /\ UNCHANGED <<categories, groups, callers, offered, har, probe, loader, earlier,
                   singleton>>
    /\ UNCHANGED <<dicts, detected, pc, budget, bundle, idx, ret>>

\* _format_results raises: the iterated dict changed size, or a cats or groups
\* value is no list
FormatRaise(t) ==
    /\ pc[t] = "format"
    /\ IF IterChanged(t) THEN TRUE
       ELSE /\ iter[t].pos < iter[t].size
            /\ TechFormatRaises(dicts[iter[t].obj][iter[t].pos + 1][1],
                                technologies, categories)
    /\ pc' = [pc EXCEPT ![t] = "raised"]
    /\ UNCHANGED <<fixed, dicts, detected, budget, bundle, idx, iter, results, ret>>

\* lines 282-283: the loop is over, the list is sorted and returned
Return(t) ==
    /\ pc[t] = "format"
    /\ ~IterChanged(t)
    /\ iter[t].pos = iter[t].size
    /\ ret' = [ret EXCEPT ![t] = SortByConfidence(results[t])]
    /\ pc' = [pc EXCEPT ![t] = "done"]
    /\ UNCHANGED <<fixed, dicts, detected, budget, bundle, idx, iter, results>>

Next ==
    \/ \E t \in callers : Call(t)
    \/ \E t \in callers : LoopStep(t)
    \/ \E t \in callers : LoopRaise(t)
    \/ \E t \in callers : FormatStart(t)
    \/ \E t \in callers : FormatStep(t)
    \/ \E t \in callers : FormatRaise(t)
    \/ \E t \in callers : Return(t)

\* calls of one caller, one after the other
Spec == Init /\ [][Next]_vars

\* calls of two callers on one detector, interleaved
SpecConc == InitConc /\ [][Next]_vars

(***************************************************************************)
(* parse_har_file, step by step.                                           *)
(***************************************************************************)
analyzer == <<technologies, categories, groups, dicts, detected, callers, offered, pc,
              budget, bundle, idx, iter, results, ret, probe, loader, earlier, singleton>>

\* the bundle the caller holds when a call begins
Held(h) ==
    IF h.pc = "done" THEN [returned |-> TRUE, result |-> h.result, aliased |-> h.aliased]
    ELSE h.previous

\* lines 42-44: the file opens and holds JSON
HarLoad ==
    /\ har.pc \in {"idle", "done", "raised"}
    /\ har.budget > 0
    /\ \E c \in DOMAIN Captures :
          /\ Captures[c].readable /\ Captures[c].json
          /\ har' = [NoHar(har.budget - 1) EXCEPT
                        !.pc = "loaded", !.capture = c, !.data = Captures[c].data,
                        !.shared = har.shared, !.previous = Held(har)]
    /\ UNCHANGED analyzer

\* lines 45-47: open or json.load raises, EMPTY_HAR_RESULT.copy() is returned
HarLoadFails ==
    /\ har.pc \in {"idle", "done", "raised"}
    /\ har.budget > 0
    /\ \E c \in DOMAIN Captures :
          /\ ~(Captures[c].readable /\ Captures[c].json)
          /\ har' = [NoHar(har.budget - 1) EXCEPT
                        !.pc = "done", !.capture = c, !.result = ShallowCopy(har.shared),
                        !.aliased = Containers,
                        !.shared = har.shared, !.previous = Held(har)]
    /\ UNCHANGED analyzer

\* har_data.get("log", {}).get("entries", [])
EntriesOf(data) == PyGet(PyGet(data, "log", JDict(<<>>)), "entries", JList(<<>>))

\* lines 49-53: result = EMPTY_HAR_RESULT.copy(), returned when there are no entries
HarEntries ==
    /\ har.pc = "loaded"
    /\ har' = [har EXCEPT
                  !.pc = IF EntriesOf(har.data).k = "err" THEN "raised"
                         ELSE IF Truthy(EntriesOf(har.data)) THEN "main" ELSE "done",
                  !.entries = EntriesOf(har.data),
                  !.result = ShallowCopy(har.shared),
                  !.aliased = Containers]
    /\ UNCHANGED analyzer

\* the entries as the loops of lines 58 and 101 meet them
EntryItems(entries) == Iterate(entries).items

\* lines 55-63: the main entry
HarMain ==
    /\ har.pc = "main"
    /\ har' = [har EXCEPT
                  !.pc = IF Iterate(har.entries).raised
                         THEN "raised"
                         ELSE IF MainScan(EntryItems(har.entries), 1).raised
                              THEN "raised" ELSE "fields",
                  !.main = IF Iterate(har.entries).raised THEN JNull
                           ELSE MainScan(EntryItems(har.entries), 1).entry]
    /\ UNCHANGED analyzer

\* lines 65-86 raise: the request is no dict, or a header or a cookie is none
FieldsRaise(main) ==
    \/ PyGet(PyGet(main, "request", JDict(<<>>)), "url", JStr(<<>>)).k = "err"
    \/ HeadersOf(PyGet(PyGet(main, "response", JDict(<<>>)), "headers", JList(<<>>))).raised
    \/ CookiesOf( PyGet(PyGet(main, "response", JDict(<<>>)), "cookies", JList(<<>>))).raised

\* lines 65-97: url, headers, cookies and html of the main entry
FieldsOf(main, result) ==
    [result EXCEPT
        !.url = OrEmpty(PyGet(PyGet(main, "request", JDict(<<>>)), "url", JStr(<<>>))),
        !.headers = HeadersOf(
                        PyGet(PyGet(main, "response", JDict(<<>>)), "headers", JList(<<>>))).dict,
        !.cookies = CookiesOf(
                        PyGet(PyGet(main, "response", JDict(<<>>)), "cookies", JList(<<>>))).dict,
        !.html = HtmlOf(PyGet(PyGet(main, "response", JDict(<<>>)), "content", JDict(<<>>)))]

HarFields ==
    /\ har.pc = "fields"
    /\ har' = IF FieldsRaise(har.main) THEN [har EXCEPT !.pc = "raised"]
              ELSE [har EXCEPT !.pc = "scripts",
                               !.result = FieldsOf(har.main, har.result),
                               !.aliased = @ \ {"headers", "cookies"}]
    /\ UNCHANGED analyzer

\* lines 99-106: the script candidates of the entries
HarScripts ==
    /\ har.pc = "scripts"
    /\ har' = IF ScriptCandidates(EntryItems(har.entries)).raised
              THEN [har EXCEPT !.pc = "raised"]
              ELSE [har EXCEPT !.pc = "markup",
                               !.candidates = ScriptCandidates(EntryItems(har.entries)).list]
    /\ UNCHANGED analyzer

\* lines 108-125: meta and the inline scripts, when there is html
HarMarkup ==
    /\ har.pc = "markup"
    /\ har' = IF ~Truthy(har.result.html) THEN [har EXCEPT !.pc = "dedupe"]
              ELSE IF HarSoup(har.result.html).raised THEN [har EXCEPT !.pc = "raised"]
              ELSE [har EXCEPT
                       !.pc = "dedupe",
                       !.result.meta = MetaOf(HarSoup(har.result.html).tags, <<>>),
                       !.aliased = @ \ {"meta"},
                       !.candidates = @ \o InlineScripts(HarSoup(har.result.html).tags)]
    /\ UNCHANGED analyzer

\* lines 127-136: the candidates without repeats; the bundle is returned
HarDedupe ==
    /\ har.pc = "dedupe"
    /\ har' = IF \E i \in DOMAIN har.candidates : ~Hashable(har.candidates[i])
              THEN [har EXCEPT !.pc = "raised"]
              ELSE [har EXCEPT !.pc = "done",
                               !.result.scripts = Unique(har.candidates, <<>>),
                               !.aliased = @ \ {"scripts"}]
    /\ UNCHANGED analyzer

\* a detector that is not called, and a caller of parse_har_file
InitHar ==
    /\ technologies = Stores[1].technologies
    /\ categories = Stores[1].categories
    /\ groups = Stores[1].groups
    /\ dicts = [o \in Objects |-> <<>>]
    /\ detected = 1
    /\ callers = {1}
    /\ offered = {1}
    /\ pc = [t \in Threads |-> "idle"]
    /\ budget = [t \in Threads |-> 0]
    /\ bundle = [t \in Threads |-> EmptyBundle]
    /\ idx = [t \in Threads |-> 0]
    /\ iter = [t \in Threads |-> NoIter]
    /\ results = [t \in Threads |-> <<>>]
    /\ ret = [t \in Threads |-> <<>>]
    /\ har = NoHar(MaxCalls)
    /\ probe = NoProbe
    /\ loader = NoLoader
    /\ earlier = {}
    /\ singleton = NoSingleton

NextHar ==
    \/ HarLoad
    \/ HarLoadFails
    \/ HarEntries
    \/ HarMain
    \/ HarFields
    \/ HarScripts
    \/ HarMarkup
    \/ HarDedupe

\* calls of parse_har_file, one after the other
SpecHar == InitHar /\ [][NextHar]_vars

(***************************************************************************)
(* A caller of parse_har_file that writes to the bundles it was returned.  *)
(***************************************************************************)
\* the container c holds the item the caller adds
HasOneMore(c, items) ==
    IF c = "scripts" THEN JStr(<<"x">>) \in Range(items)
    ELSE IF c = "meta" THEN HasKey(items, "x")
    ELSE HasKey(items, JStr(<<"x">>))

\* the container c with one more item
OneMore(c, items) ==
    IF c = "scripts" THEN Append(items, JStr(<<"x">>))
    ELSE IF c = "meta" THEN SetItem(items, "x", <<"y">>)
    ELSE SetItem(items, JStr(<<"x">>), JStr(<<"y">>))

\* the bundle the caller writes to: the one the last call returned (now = TRUE)
\* or the one the call before returned
Target(h, now) ==
    IF now THEN [returned |-> TRUE, result |-> h.result, aliased |-> h.aliased]
    ELSE h.previous

\* the caller's write of `items` to container c of its target; `shares` tells that
\* this container is the object of EMPTY_HAR_RESULT, which every bundle that has
\* that object sees changed
Written(h, now, c, items, shares) ==
    [h EXCEPT
        !.result = IF now \/ (shares /\ c \in h.aliased)
                   THEN WithContainer(@, c, items) ELSE @,
        !.previous.result = IF ~now \/ (shares /\ c \in h.previous.aliased)
                            THEN WithContainer(@, c, items) ELSE @,
        !.shared[c] = IF shares THEN items ELSE @]

\* the caller adds an item to a container of a bundle it was returned
HarMutate ==
    /\ har.pc = "done"
    /\ \E now \in BOOLEAN, c \in Containers :
          /\ Target(har, now).returned
          /\ ~HasOneMore(c, ContainerOf(Target(har, now).result, c))
          /\ har' = Written(har, now, c,
                            OneMore(c, ContainerOf(Target(har, now).result, c)),
                            c \in Target(har, now).aliased)
    /\ UNCHANGED analyzer

NextHarCaller ==
    \/ HarLoad
    \/ HarLoadFails
    \/ HarEntries
    \/ HarMain
    \/ HarFields
    \/ HarScripts
    \/ HarMarkup
    \/ HarDedupe
    \/ HarMutate

\* calls of parse_har_file by a caller that writes to the bundles
SpecHarCaller == InitHar /\ [][NextHarCaller]_vars

(***************************************************************************)
(* _check_pattern_with_version on its own: calls with a text and a         *)
(* versioned map.                                                          *)
(***************************************************************************)
\* the entries of a versioned map a call may get
MaxEntries == 2

tSlash == <<"\\", "2", "5">>

pAny == <<Any2, Grp>>
pOptGrp == <<Lit("a"), Opt, Grp>>

v12 == JStr(<<"\\", "1", "-", "\\", "2">>)

ProbeTexts == {<<>>, tA, tA1, tB1, tUpA2, tSlash}

ProbeEntries ==
    { <<pA, v1>>, <<pAmeta, vV1>>, <<pAv, v1>>, <<pAopt, vV1>>, <<pB, v1>>, <<pBad, v1>>,
      <<pAny, v1>>, <<<<Lit("a"), Star, Grp>>, v12>>, <<pAv \o <<Meta>>, JStr(<<>>)>>, <<pOptGrp, v12>>,
      <<<<Lit("b"), Grp>>, JNull>> }

\* the payloads of the dicts with at most MaxEntries of these entries: the keys of
\* a dict are distinct
ProbeMaps ==
    UNION {{m \in [1..n -> ProbeEntries] : \A i, j \in 1..n : i # j => m[i][1] # m[j][1]} :
             n \in 0..MaxEntries}

\* the detector is not called
NoAnalysis ==
    /\ technologies = Stores[1].technologies
    /\ categories = Stores[1].categories
    /\ groups = Stores[1].groups
    /\ dicts = [o \in Objects |-> <<>>]
    /\ detected = 1
    /\ callers = {1}
    /\ offered = {1}
    /\ pc = [t \in Threads |-> "idle"]
    /\ budget = [t \in Threads |-> 0]
    /\ bundle = [t \in Threads |-> EmptyBundle]
    /\ idx = [t \in Threads |-> 0]
    /\ iter = [t \in Threads |-> NoIter]
    /\ results = [t \in Threads |-> <<>>]
    /\ ret = [t \in Threads |-> <<>>]

InitProbe ==
    /\ NoAnalysis
    /\ har = NoHar(0)
    /\ \E text \in ProbeTexts, m \in ProbeMaps :
          probe = [NoProbe EXCEPT !.text = text, !.patterns = JDict(m)]
    /\ loader = NoLoader
    /\ earlier = {}
    /\ singleton = NoSingleton

\* lines 214-245: the call returns
ProbeApply ==
    /\ probe.pc = "idle"
    /\ probe' = [probe EXCEPT !.pc = "done",
                              !.result = CheckPatternWithVersion(probe.text, probe.patterns)]
    /\ UNCHANGED <<technologies, categories, groups, dicts, detected, callers, offered, pc,
                   budget, bundle, idx, iter, results, ret, har, loader, earlier,
                   singleton>>

NextProbe == ProbeApply

\* calls of _check_pattern_with_version with a versioned map
SpecProbe == InitProbe /\ [][NextProbe]_vars

(***************************************************************************)
(* Calls of the functions of data_loader, one after the other, while the   *)
(* files and the remote data set change between them.                      *)
(***************************************************************************)
\* what no function of data_loader assigns
loaderFixed == <<technologies, categories, groups, dicts, detected, callers, offered, pc,
                 budget, bundle, idx, iter, results, ret, har, probe, earlier, singleton>>

InitLoader ==
    /\ NoAnalysis
    /\ har = NoHar(0)
    /\ probe = NoProbe
    /\ earlier = {}
    /\ singleton = NoSingleton
    /\ \E fs \in [Range(TableNames) -> {JNull, JDict(<<>>), Table(1)}], up \in BOOLEAN :
          loader = [NoLoader EXCEPT !.files = fs, !.remote = up]

LoadTechnologies ==
    /\ loader.calls < MaxLoads
    /\ \E saved \in BOOLEAN :
          loader' = Load(Begun(loader, "load_technologies", FALSE), "technologies", saved)
    /\ UNCHANGED loaderFixed

LoadCategories ==
    /\ loader.calls < MaxLoads
    /\ \E saved \in BOOLEAN :
          loader' = Load(Begun(loader, "load_categories", FALSE), "categories", saved)
    /\ UNCHANGED loaderFixed

LoadGroups ==
    /\ loader.calls < MaxLoads
    /\ \E saved \in BOOLEAN :
          loader' = Load(Begun(loader, "load_groups", FALSE), "groups", saved)
    /\ UNCHANGED loaderFixed

Ensure ==
    /\ loader.calls < MaxLoads
    /\ \E force \in BOOLEAN, k \in 0..Len(TableNames), saved \in BOOLEAN :
          loader' = EnsureFingerprintData(Begun(loader, "ensure_fingerprint_data", force),
                                          force, k, saved)
    /\ UNCHANGED loaderFixed

\* the remote data set is published anew, or becomes reachable or unreachable
RemoteChanges ==
    /\ loader.changes < MaxChanges
    /\ \/ loader' = [loader EXCEPT !.epoch = @ + 1, !.changes = @ + 1]
       \/ loader' = [loader EXCEPT !.remote = ~@, !.changes = @ + 1]
    /\ UNCHANGED loaderFixed

\* somebody writes or removes a local file
FileChanges ==
    /\ loader.changes < MaxChanges
    /\ \E t \in Range(TableNames), c \in {JNull, JDict(<<>>), Table(loader.epoch)} :
          /\ c # loader.files[t]
          /\ loader' = [loader EXCEPT !.files[t] = c, !.changes = @ + 1]
    /\ UNCHANGED loaderFixed

NextLoader ==
    \/ LoadTechnologies
    \/ LoadCategories
    \/ LoadGroups
    \/ Ensure
    \/ RemoteChanges
    \/ FileChanges

SpecLoader == InitLoader /\ [][NextLoader]_vars

(***************************************************************************)
(* detect_technologies and its module-level detector, while the functions  *)
(* of data_loader are called and the data changes.                         *)
(***************************************************************************)
MaxDetects == 2

\* TechDetector.__init__: ensure_fingerprint_data(), then the three load functions
Constructed(l, saved) ==
    Load(Load(Load(EnsureFingerprintData(l, FALSE, 0, saved), "technologies", saved),
              "categories", saved),
         "groups", saved)

\* lines 308-312: the detector of the call, a new one when _GLOBAL_DETECTOR is None;
\* its tables are the objects the caches refer to when it is constructed
DetectorOf(g, l, saved) ==
    IF g.made THEN g
    ELSE [g EXCEPT !.made = TRUE, !.tables = Constructed(l, saved).cache]

\* detect_technologies: the call analyzes against the tables of its detector
DetectTechnologies ==
    /\ singleton.calls < MaxDetects
    /\ \E saved \in BOOLEAN :
          /\ singleton' = [DetectorOf(singleton, loader, saved) EXCEPT
                              !.used = DetectorOf(singleton, loader, saved).tables,
                              !.calls = @ + 1]
          /\ loader' = IF singleton.made THEN loader ELSE Constructed(loader, saved)
    /\ UNCHANGED <<technologies, categories, groups, dicts, detected, callers, offered, pc,
                   budget, bundle, idx, iter, results, ret, har, probe, earlier>>

NextSingleton ==
    \/ DetectTechnologies
    \/ LoadTechnologies
    \/ LoadCategories
    \/ LoadGroups
    \/ Ensure
    \/ RemoteChanges
    \/ FileChanges

SpecSingleton == InitLoader /\ [][NextSingleton]_vars

(***************************************************************************)
(* What one analyze call returns when no other call runs on the detector.  *)
(* The order of a Detection's groups is the iteration order of a set, so   *)
(* results are compared with groups taken as a set.                        *)
(***************************************************************************)
RECURSIVE DetectFrom(_, _, _, _)
\* the loop of line 93 from position i on, run without interruption
DetectFrom(techs, b, i, acc) ==
    IF i > Len(techs) \/ acc.raised THEN acc
    ELSE LET o == LoopOutcome(techs[i], b)
         IN DetectFrom(techs, b, i + 1,
                [raised |-> o.raised,
                 detected |-> IF o.store THEN SetItem(acc.detected, techs[i][1], o.entry)
                              ELSE acc.detected])

GroupsAsSet(r) == [r EXCEPT !.groups = Range(@)]

Canon(rs) == [i \in DOMAIN rs |-> GroupsAsSet(rs[i])]

Alone(techs, cats, grps, b) ==
    LET d == DetectFrom(techs, b, 1, [raised |-> FALSE, detected |-> <<>>])
        det == d.detected
        fails == \E i \in DOMAIN det : TechFormatRaises(det[i][1], techs, cats)
    IN IF d.raised \/ fails THEN [raised |-> TRUE, results |-> <<>>]
       ELSE [raised |-> FALSE,
             results |-> Canon(SortByConfidence([i \in DOMAIN det |->
                 FormatOne(det[i][1], det[i][2], techs, cats, grps,
                           CHOOSE order \in GroupOrders(det[i][1], techs, cats) : TRUE)]))]

\* the position of a technology in the iteration order of the table
TechPos(name) == CHOOSE i \in DOMAIN technologies : technologies[i][1] = name

\* the item of the dict a finished call iterated that a Detection was built from
EntryOf(t, name) == Get(dicts[iter[t].obj], name)

(***************************************************************************)
(* Claims.                                                                 *)
(***************************************************************************)

\* C1: for any interleaving of two concurrent analyze calls on one detector, every
\* call returns exactly the Detection list it would return if it ran alone, and a
\* call raises only if it would raise alone.
C1_ConcurrentCallsIsolated ==
    \A t \in callers :
        /\ pc[t] = "done" =>
              LET a == Alone(technologies, categories, groups, bundle[t])
              IN ~a.raised /\ Canon(ret[t]) = a.results
        /\ pc[t] = "raised" =>
              Alone(technologies, categories, groups, bundle[t]).raised

\* C2: the list analyze returns is sorted by confidence descending, and two
\* Detections of equal confidence are in the order of their technologies in the
\* technologies table.
C2_SortedStable ==
    \A t \in callers : pc[t] = "done" =>
        \A i, j \in DOMAIN ret[t] : i < j =>
            /\ ret[t][i].confidence >= ret[t][j].confidence
            /\ ret[t][i].confidence = ret[t][j].confidence =>
                  TechPos(ret[t][i].name) < TechPos(ret[t][j].name)

\* C2 witness: a returned list with a tie, and with a Detection moved before one
\* whose technology comes earlier in the table
C2_Witness ==
    \E t \in callers :
        /\ pc[t] = "done"
        /\ \E i, j \in DOMAIN ret[t] :
              i < j /\ ret[t][i].confidence = ret[t][j].confidence
        /\ \E i, j \in DOMAIN ret[t] :
              i < j /\ TechPos(ret[t][i].name) > TechPos(ret[t][j].name)

\* C3: the confidence of every Detection is min(10 x number of match labels, 100),
\* one label per successful check (repeated labels count), so it is a multiple of
\* 10, at most 100, and does not decrease as the number of labels grows.
C3_Confidence ==
    \A t \in callers : pc[t] = "done" =>
        /\ \A i \in DOMAIN ret[t] :
              LET n == Len(EntryOf(t, ret[t][i].name).matches)
                  c == ret[t][i].confidence
              IN /\ n >= 1
                 /\ c = IF 10 * n <= 100 THEN 10 * n ELSE 100
                 /\ c % 10 = 0 /\ c <= 100
        /\ \A i, j \in DOMAIN ret[t] :
              Len(EntryOf(t, ret[t][i].name).matches)
                  <= Len(EntryOf(t, ret[t][j].name).matches)
              => ret[t][i].confidence <= ret[t][j].confidence

\* C3 witness: a Detection with more than ten labels, one of them repeated, at 100
C3_Witness ==
    \E t \in callers :
        /\ pc[t] = "done"
        /\ \E i \in DOMAIN ret[t] :
              LET m == EntryOf(t, ret[t][i].name).matches
              IN /\ Len(m) > 10
                 /\ ~NoDup(m)
                 /\ ret[t][i].confidence = 100

\* C4: analyze returns exactly one Detection for each technology of the table whose
\* match list is not empty after all checks, none for a technology whose match list
\* is empty, and no name twice.
C4_OnePerMatchedTechnology ==
    \A t \in callers : pc[t] = "done" =>
        /\ NoDup([i \in DOMAIN ret[t] |-> ret[t][i].name])
        /\ {ret[t][i].name : i \in DOMAIN ret[t]} =
              {technologies[i][1] : i \in
                  {k \in DOMAIN technologies :
                      /\ IsDict(technologies[k][2])
                      /\ TechChecks(technologies[k][2].v, bundle[t]).matches # <<>>}}

\* C4 witness: a returned list that holds some technologies of the table and not others
C4_Witness ==
    \E t \in callers :
        /\ pc[t] = "done"
        /\ ret[t] # <<>>
        /\ Len(ret[t]) < Len(technologies)
        /\ \E k \in DOMAIN technologies :
              /\ IsDict(technologies[k][2])
              /\ TechChecks(technologies[k][2].v, bundle[t]).matches = <<>>

(***************************************************************************)
(* Reference tables for the error-handling claims: the tables without the  *)
(* entries that are not shaped as expected, and without the regexes that   *)
(* do not compile.                                                         *)
(***************************************************************************)
\* a pattern spec is a string, a list or a dict whose templates are strings
ShapedSpec(j) ==
    /\ j.k \in {"str", "list", "dict", "null"}
    /\ j.k = "dict" => \A i \in DOMAIN j.v : j.v[i][2].k \in {"str", "null"}

ShapedNamed(j) == IsDict(j) /\ \A i \in DOMAIN j.v : ShapedSpec(j.v[i][2])

ShapedTech(tech) ==
    /\ IsDict(tech[2])
    /\ \A key \in {"url", "html", "scripts", "certIssuer"} :
          HasKey(tech[2].v, key) => ShapedSpec(Get(tech[2].v, key))
    /\ \A key \in {"headers", "cookies", "meta", "dns"} :
          HasKey(tech[2].v, key) => ShapedNamed(Get(tech[2].v, key))
    /\ GetOr(tech[2].v, "cats", JList(<<>>)).k = "list"

ShapedCategory(cat) == IsDict(cat[2]) /\ GetOr(cat[2].v, "groups", JList(<<>>)).k = "list"

Compiles(pattern) == ~Invalid(StripWappalyzerPattern(pattern))

\* a pattern spec without its invalid regexes
ValidSpec(j) ==
    CASE j.k = "str" -> IF Compiles(j.v) THEN j ELSE JNull
      [] j.k = "list" -> JList(SelectSeq(j.v, Compiles))
      [] j.k = "dict" -> JDict(SelectSeq(j.v, LAMBDA q : Compiles(q[1])))
      [] OTHER -> j

ValidNamed(j) ==
    IF IsDict(j) THEN JDict([i \in DOMAIN j.v |-> <<j.v[i][1], ValidSpec(j.v[i][2])>>])
    ELSE j

\* a technology without its invalid regexes
ValidTech(tech) ==
    IF ~IsDict(tech[2]) THEN tech
    ELSE <<tech[1], JDict([i \in DOMAIN tech[2].v |->
            LET key == tech[2].v[i][1]
                val == tech[2].v[i][2]
            IN <<key, IF key \in {"url", "html", "scripts", "certIssuer"} THEN ValidSpec(val)
                      ELSE IF key \in {"headers", "cookies", "meta", "dns"}
                           THEN ValidNamed(val)
                           ELSE val>>])>>

HasInvalidRegex(techs) == \E i \in DOMAIN techs : ValidTech(techs[i]) # techs[i]

\* a field of a dict that is absent or of the kind named
Optional(j, key, kind) == HasKey(j.v, key) => Get(j.v, key).k = kind

\* an entry of a capture has the structure of a HAR entry
EntryStructure(e) ==
    /\ e.k = "dict"
    /\ Optional(e, "request", "dict")
    /\ Optional(PyGet(e, "request", JDict(<<>>)), "url", "str")
    /\ Optional(e, "response", "dict")
    /\ Optional(PyGet(e, "response", JDict(<<>>)), "headers", "list")
    /\ \A h \in Range(PyGet(PyGet(e, "response", JDict(<<>>)), "headers", JList(<<>>)).v) :
          h.k = "dict"
    /\ Optional(PyGet(e, "response", JDict(<<>>)), "cookies", "list")
    /\ Optional(PyGet(e, "response", JDict(<<>>)), "content", "dict")
    /\ Optional(PyGet(PyGet(e, "response", JDict(<<>>)), "content", JDict(<<>>)),
                "mimeType", "str")

\* a capture that opens, holds JSON, and has the structure of a HAR file
CaptureStructure(c) ==
    /\ c.readable /\ c.json
    /\ c.data.k = "dict"
    /\ Optional(c.data, "log", "dict")
    /\ Optional(PyGet(c.data, "log", JDict(<<>>)), "entries", "list")
    /\ \A e \in Range(EntriesOf(c.data).v) : EntryStructure(e)

\* C5: parse_har_file never raises to its caller, and for a capture that is
\* missing, unreadable, not JSON, or JSON without the structure of a HAR file it
\* returns the all-empty bundle.
C5_ParseHarNeverRaises ==
    /\ har.pc # "raised"
    /\ har.pc = "done" /\ ~CaptureStructure(Captures[har.capture])
          => har.result = EMPTY_HAR_RESULT

\* C6: an entry that is not shaped as expected is skipped for that entry only:
\* analyze does not raise, and returns what it returns for the tables without the
\* entries that are not shaped as expected.
C6_MalformedEntrySkipped ==
    \A t \in callers :
        /\ pc[t] # "raised"
        /\ pc[t] = "done" =>
              Canon(ret[t]) = Alone(SelectSeq(technologies, ShapedTech),
                                    SelectSeq(categories, ShapedCategory),
                                    groups, bundle[t]).results

\* C7: an invalid regex is a pattern that does not match and nothing more: a call
\* returns what it returns for the tables without the invalid regexes, and raises
\* only if it raises for those tables.
C7_InvalidRegexSkipped ==
    \A t \in callers :
        LET a == Alone([i \in DOMAIN technologies |-> ValidTech(technologies[i])],
                       categories, groups, bundle[t])
        IN /\ pc[t] = "done" => ~a.raised /\ Canon(ret[t]) = a.results
           /\ pc[t] = "raised" => a.raised

\* C7 witness: with invalid regexes in the table, a call returns a Detection made
\* by a valid pattern that comes after an invalid one, with its version
C7_Witness ==
    \E t \in callers :
        /\ pc[t] = "done"
        /\ HasInvalidRegex(technologies)
        /\ \E i \in DOMAIN ret[t] :
              /\ ret[t][i].versions # {}
              /\ ValidTech(technologies[TechPos(ret[t][i].name)])
                    # technologies[TechPos(ret[t][i].name)]

\* the versions an entry of a versioned map gives for a text: its template with
\* the groups of its match substituted, when the regex has groups and the
\* template is a non-empty string
DerivedVersions(spec, text) ==
    IF spec.k # "dict" \/ text = <<>> THEN {}
    ELSE {JStr(SubstituteGroups(q[2].v, Search(StripWappalyzerPattern(q[1]), text).groups, 1)) :
            q \in {e \in Range(spec.v) :
                    /\ Compiles(e[1])
                    /\ Search(StripWappalyzerPattern(e[1]), text).ok
                    /\ Search(StripWappalyzerPattern(e[1]), text).groups # <<>>
                    /\ e[2].k = "str"
                    /\ e[2].v # <<>>}}

\* the versions the html, scripts, headers and meta checks of a technology can give
VersionSources(td, b) ==
    (IF HasKey(td, "html") THEN DerivedVersions(Get(td, "html"), b.html.text) ELSE {})
    \cup (IF HasKey(td, "scripts")
          THEN UNION {DerivedVersions(Get(td, "scripts"), x) :
                        x \in Range(b.scripts) \cup Range(ScriptSrcs(b.html.tags))}
          ELSE {})
    \cup (IF HasKey(td, "headers") /\ IsDict(Get(td, "headers"))
          THEN UNION {DerivedVersions(e[2], HeaderValue(b.headers, e[1])) :
                        e \in Range(Get(td, "headers").v)}
          ELSE {})
    \cup (IF HasKey(td, "meta") /\ IsDict(Get(td, "meta"))
          THEN UNION {DerivedVersions(e[2], GetOr(b.meta, e[1], <<>>)) :
                        e \in Range(Get(td, "meta").v)}
          ELSE {})

\* C8: every version of a Detection is a version template with capture groups
\* substituted, made by a matching html, scripts, headers or meta check of that
\* technology in that call; a match of a regex without groups gives no version, and
\* the url, cookies, dns and certIssuer checks give none.
C8_VersionsFromCaptureGroups ==
    \A t \in callers : pc[t] = "done" =>
        \A i \in DOMAIN ret[t] :
            ret[t][i].versions \subseteq
                VersionSources(technologies[TechPos(ret[t][i].name)][2].v, bundle[t])

\* C8 witness: a Detection with a version, and a Detection made by a cookie whose
\* versioned map has groups and a template, without any version
C8_Witness ==
    \E t \in callers :
        /\ pc[t] = "done"
        /\ \E i \in DOMAIN ret[t] : ret[t][i].versions # {}
        /\ \E i \in DOMAIN ret[t] :
              LET td == technologies[TechPos(ret[t][i].name)][2].v
              IN /\ ret[t][i].versions = {}
                 /\ \E m \in Range(EntryOf(t, ret[t][i].name).matches) : m.sig = "cookies"
                 /\ HasKey(td, "cookies")
                 /\ \E e \in Range(Get(td, "cookies").v) :
                       DerivedVersions(e[2], GetOr(bundle[t].cookies, e[1], <<>>)) # {}

\* the declared category ids of the technology of a Detection
DeclaredCats(name) == GetOr(technologies[TechPos(name)][2].v, "cats", JList(<<>>)).v

InTable(table, id) == \E e \in Range(table) : e[1] = StrOf(id) /\ IsDict(e[2])

Named(table, id) == \E e \in Range(table) : e[1] = StrOf(id) /\ IsDict(e[2]) /\ HasKey(e[2].v, "name")

NameIn(table, id) == DisplayName(Get(Get(table, StrOf(id)).v, "name"))

\* the positions of the declared category ids that have an entry in the table
KeptCats(name) == {i \in DOMAIN DeclaredCats(name) : InTable(categories, DeclaredCats(name)[i])}

\* the k-th of them
KthKept(name, k) ==
    DeclaredCats(name)[CHOOSE i \in KeptCats(name) :
                          Cardinality({j \in KeptCats(name) : j <= i}) = k]

\* the group ids, with an entry in the groups table, of the categories kept
KeptGroups(name) ==
    {g \in UNION {Range(GetOr(Get(categories, StrOf(DeclaredCats(name)[i])).v,
                              "groups", JList(<<>>)).v) : i \in KeptCats(name)} :
        InTable(groups, g)}

C10_NoDuplicateGroupName ==
    \A t \in callers : pc[t] = "done" =>
        \A i \in DOMAIN ret[t] :
            LET r == ret[t][i]
            IN /\ NoDup(r.groups)
               /\ Range(r.groups) = {GroupName(g, groups) : g \in KeptGroups(r.name)}

\* C10: the groups list of a Detection has one name for each distinct group id,
\* with an entry in the groups table, of the categories kept, also when two of the
\* categories share a group id; two ids of one name give that name twice.
C10_OneNamePerGroupId ==
    \A t \in callers : pc[t] = "done" =>
        \A i \in DOMAIN ret[t] :
            LET r == ret[t][i]
            IN \E order \in [DOMAIN r.groups -> KeptGroups(r.name)] :
                  /\ \A g \in KeptGroups(r.name) : \E k \in DOMAIN order : order[k] = g
                  /\ \A k, l \in DOMAIN order : k # l => order[k] # order[l]
                  /\ \A k \in DOMAIN order :
                        r.groups[k] = IF Named(groups, order[k])
                                      THEN NameIn(groups, order[k])
                                      ELSE Synthesized("Group", order[k])

\* C10 witness: a Detection with two categories that share a group id, and that
\* group's name once in its groups list
C10_Witness ==
    \E t \in callers :
        /\ pc[t] = "done"
        /\ \E i \in DOMAIN ret[t] :
              \E a, b \in KeptCats(ret[t][i].name) :
                 /\ a # b
                 /\ \E g \in KeptGroups(ret[t][i].name) :
                       /\ \A c \in {a, b} :
                             g \in Range(Get(Get(categories,
                                    StrOf(DeclaredCats(ret[t][i].name)[c])).v, "groups").v)
                       /\ Cardinality({k \in DOMAIN ret[t][i].groups :
                                         ret[t][i].groups[k] = GroupName(g, groups)}) = 1

\* the labels of the technology `name` in a finished call: those of its Detection,
\* none when it has no Detection
LabelsOf(t, name) ==
    IF \E i \in DOMAIN ret[t] : ret[t][i].name = name
    THEN Range(EntryOf(t, name).matches)
    ELSE {}

\* C11: header names are case-insensitive: a header pattern named N is checked
\* against the bundle header whose name equals N ignoring case, whatever the case
\* of the bundle's key, and a match gives the label "headers:N".
C11_HeaderNamesIgnoreCase ==
    \A t \in callers : pc[t] = "done" =>
        \A k \in DOMAIN technologies :
            LET td == technologies[k][2]
            IN IsDict(td) /\ HasKey(td.v, "headers") /\ IsDict(Get(td.v, "headers")) =>
                 \A e \in Range(Get(td.v, "headers").v) :
                    \A h \in Range(bundle[t].headers) :
                        Lower(h[1]) = Lower(e[1]) /\ CheckPattern(h[2], e[2])
                        => Label("headers", e[1]) \in LabelsOf(t, technologies[k][1])

\* the entries of the capture of the current call of parse_har_file
CapturedEntries == EntriesOf(Captures[har.capture].data).v

\* the positions of the entries whose mime type contains "html", ignoring case
HtmlEntries ==
    {i \in DOMAIN CapturedEntries :
        /\ MimeOf(CapturedEntries[i]).k = "str"
        /\ Contains(LowerText(MimeOf(CapturedEntries[i]).v), sHtml)}

\* the first of them, or the first entry when there is none
MainEntry ==
    IF HtmlEntries = {} THEN CapturedEntries[1]
    ELSE CapturedEntries[CHOOSE i \in HtmlEntries : \A j \in HtmlEntries : i <= j]

\* C12: the main entry is the first entry whose mime type contains "html"
\* (ignoring case), also when it is not the first entry, and the first entry when
\* there is none; url, headers, cookies and html of the bundle are those of the
\* main entry alone; a capture without entries gives the all-empty bundle.
C12_MainEntry ==
    har.pc = "done" /\ Captures[har.capture].readable /\ Captures[har.capture].json =>
        IF CapturedEntries = <<>> THEN har.result = EMPTY_HAR_RESULT
        ELSE /\ har.result.url = FieldsOf(MainEntry, EMPTY_HAR_RESULT).url
             /\ har.result.headers = FieldsOf(MainEntry, EMPTY_HAR_RESULT).headers
             /\ har.result.cookies = FieldsOf(MainEntry, EMPTY_HAR_RESULT).cookies
             /\ har.result.html = FieldsOf(MainEntry, EMPTY_HAR_RESULT).html

\* C12 witness: a bundle returned for a capture whose first html entry is not its
\* first entry, and whose first entry has another url and headers
C12_Witness ==
    /\ har.pc = "done"
    /\ Captures[har.capture].readable /\ Captures[har.capture].json
    /\ CapturedEntries # <<>>
    /\ 1 \notin HtmlEntries
    /\ HtmlEntries # {}
    /\ har.result.url # FieldsOf(CapturedEntries[1], EMPTY_HAR_RESULT).url
    /\ har.result.headers # FieldsOf(CapturedEntries[1], EMPTY_HAR_RESULT).headers
    /\ har.result.html # JStr(<<>>)

\* the html text of the main entry of the capture
MainHtml == FieldsOf(MainEntry, EMPTY_HAR_RESULT).html

\* the capture has the structure of a HAR file, and its main entry html text
AnswersWithHtml ==
    /\ har.capture \in DOMAIN Captures
    /\ CaptureStructure(Captures[har.capture])
    /\ CapturedEntries # <<>>
    /\ MainHtml.k = "str"
    /\ MainHtml.v # <<>>

\* C13: the parsers are tried in order, the next one when one fails; when every
\* parser fails the function does not raise, and returns the bundle with url,
\* headers, cookies and html of the main entry, no meta, and no script from the
\* markup.
C13_ParserFallback ==
    AnswersWithHtml =>
        /\ har.pc # "raised"
        /\ har.pc = "done" =>
              /\ har.result.url = FieldsOf(MainEntry, EMPTY_HAR_RESULT).url
              /\ har.result.headers = FieldsOf(MainEntry, EMPTY_HAR_RESULT).headers
              /\ har.result.cookies = FieldsOf(MainEntry, EMPTY_HAR_RESULT).cookies
              /\ har.result.html = MainHtml
              /\ IF {"lxml", "html.parser"} \subseteq DocumentOf(MainHtml.v).rejects
                 THEN /\ har.result.meta = <<>>
                      /\ har.result.scripts = Unique(ScriptCandidates(CapturedEntries).list, <<>>)
                 ELSE har.result.meta = MetaOf(DocumentOf(MainHtml.v).tags, <<>>)

\* C14: a TechDetector holds no mutable state across calls but the tables: what a
\* call builds is local to it, and after a call has returned the state of the
\* detector is what it was before the call, which by induction is its state after
\* construction: no detection held.
C14_NoStateAcrossCalls ==
    (\A t \in callers : pc[t] \in {"idle", "done"}) => dicts[detected] = <<>>

\* C15: no analysis modifies the technologies, categories or groups tables: after
\* any sequence of calls the three tables, with their pattern specs and category
\* id lists, are what they were at load time.  (analyze_har and analyze_json reach
\* the tables through analyze only, lines 38-46 and 53-62.)
C15_TablesUnchanged ==
    [][/\ technologies' = technologies
       /\ categories' = categories
       /\ groups' = groups]_vars

\* C15 witness: a second call has returned Detections, one of them of a technology
\* whose category ids are not in ascending order in the table
C15_Witness ==
    \E t \in callers :
        /\ pc[t] = "done"
        /\ budget[t] <= MaxCalls - 2
        /\ \E i \in DOMAIN ret[t] :
              /\ DeclaredCats(ret[t][i].name) # Ascending(DeclaredCats(ret[t][i].name))
              /\ ret[t][i].versions # {}

\* the payload of the versioned map of the call, and the positions of its entries
\* whose regex compiles and matches the text
ProbePairs == probe.patterns.v

ProbeMatching ==
    {i \in DOMAIN ProbePairs :
        /\ Compiles(ProbePairs[i][1])
        /\ Search(StripWappalyzerPattern(ProbePairs[i][1]), probe.text).ok}

FirstMatching == CHOOSE i \in ProbeMatching : \A j \in ProbeMatching : i <= j

\* C16: for a versioned map the first entry, in declared order, whose pattern
\* matches the text decides: the result is true with the version of that entry
\* alone (none when the entry has no template or its regex no groups), whatever
\* the entries after it, and it is (false, None) exactly when no entry matches.
C16_FirstMatchDecides ==
    probe.pc = "done" /\ probe.text # <<>> =>
        /\ probe.result.matched <=> ProbeMatching # {}
        /\ ProbeMatching = {} => probe.result = Result(FALSE, JNull)
        /\ ProbeMatching # {} =>
              /\ probe.result =
                    CheckPatternWithVersion(probe.text, JDict(<<ProbePairs[FirstMatching]>>))
              /\ ~Truthy(ProbePairs[FirstMatching][2]) => probe.result.version = JNull
              /\ Search(StripWappalyzerPattern(ProbePairs[FirstMatching][1]),
                        probe.text).groups = <<>>
                    => probe.result.version = JNull

\* C16 witness: two entries match, the second alone gives another version than
\* the first, and the result is that of the first
C16_Witness ==
    /\ probe.pc = "done"
    /\ Cardinality(ProbeMatching) = 2
    /\ probe.result.version # JNull
    /\ \E j \in ProbeMatching :
          /\ j > FirstMatching
          /\ CheckPatternWithVersion(probe.text, JDict(<<ProbePairs[j]>>)).version
                \notin {JNull, probe.result.version}

\* the group a token names: the characters at p are a backslash and the digit of
\* a group that took part in the match and is not empty
TokenAt(template, grps, p) ==
    {i \in 1..9 :
        /\ p + 1 <= Len(template)
        /\ template[p] = "\\"
        /\ template[p + 1] = StrOf(i)
        /\ i <= Len(grps)
        /\ GroupTruthy(grps[i])}

RECURSIVE SubstituteAtOnce(_, _, _)
\* the template from position p on, each token replaced by the text of its group,
\* every other character kept, and the text put in not looked at again
SubstituteAtOnce(template, grps, p) ==
    IF p > Len(template) THEN <<>>
    ELSE IF TokenAt(template, grps, p) # {}
         THEN grps[CHOOSE i \in TokenAt(template, grps, p) : TRUE].s
              \o SubstituteAtOnce(template, grps, p + 2)
         ELSE <<template[p]>> \o SubstituteAtOnce(template, grps, p + 1)

\* the groups of the match of the entry that decides
DecidingGroups ==
    Search(StripWappalyzerPattern(ProbePairs[FirstMatching][1]), probe.text).groups

\* C17: when the entry that decides has capturing groups and a non-empty template,
\* the version is the template with each token \i replaced by the text of group i
\* when that group took part in the match and is not empty; every other character,
\* the tokens of unset or empty groups too, is as in the template, and the text put
\* in for a token is not substituted again.
C17_TokensSubstitutedOnce ==
    /\ probe.pc = "done"
    /\ probe.text # <<>>
    /\ ProbeMatching # {}
    /\ DecidingGroups # <<>>
    /\ ProbePairs[FirstMatching][2].k = "str"
    /\ ProbePairs[FirstMatching][2].v # <<>>
    => probe.result.version =
          JStr(SubstituteAtOnce(ProbePairs[FirstMatching][2].v, DecidingGroups, 1))

\* the entry is a script: its mime type contains "javascript", ignoring case, or
\* its url ends in ".js"
IsScriptEntry(entry) ==
    \/ Contains(LowerText(OrEmpty(MimeOf(entry)).v), sJavascript)
    \/ EndsWith(OrEmpty(PyGet(PyGet(entry, "request", JDict(<<>>)), "url", JStr(<<>>))).v,
                sDotJs)

\* the tag is an inline script with a body
IsInlineScript(g) == g.tag = "script" /\ g.src = <<>> /\ g.text # <<>>

\* (a) the urls of the script entries in capture order, then (b) the bodies of the
\* inline scripts of html in document order, cut to their first InlineLimit
\* characters
ScriptSources ==
    LET scriptEntries == SelectSeq(CapturedEntries, IsScriptEntry)
        inline == IF har.result.html.v = <<>> THEN <<>>
                  ELSE SelectSeq(DocumentOf(har.result.html.v).tags, IsInlineScript)
    IN [i \in DOMAIN scriptEntries |->
            OrEmpty(PyGet(PyGet(scriptEntries[i], "request", JDict(<<>>)), "url", JStr(<<>>)))]
       \o [i \in DOMAIN inline |->
            JStr([j \in 1..Min(InlineLimit, Len(inline[i].text)) |-> inline[i].text[j]])]

\* the position of the first occurrence of x in the sequence
FirstAt(seq, x) == CHOOSE i \in DOMAIN seq : seq[i] = x /\ \A j \in 1..(i - 1) : seq[j] # x

\* C18: the scripts list parse_har_file returns has no string twice, holds exactly
\* the strings of (a) the request urls of the entries whose mime type contains
\* "javascript" (ignoring case) or whose url ends in ".js", in capture order,
\* followed by (b) the bodies of the inline scripts of html in document order, each
\* cut to its first 500 characters, and holds them in the order of their first
\* occurrence there.
C18_ScriptsFirstOccurrences ==
    har.pc = "done" /\ Captures[har.capture].readable /\ Captures[har.capture].json =>
        /\ \A i, j \in DOMAIN har.result.scripts :
              har.result.scripts[i] = har.result.scripts[j] => i = j
        /\ Range(har.result.scripts) = Range(ScriptSources)
        /\ \A i, j \in DOMAIN har.result.scripts :
              i < j => FirstAt(ScriptSources, har.result.scripts[i])
                       < FirstAt(ScriptSources, har.result.scripts[j])

\* C18 witness: a bundle returned for a capture with a script entry and an inline
\* script longer than 500 characters, where a string occurs twice among the
\* sources and the scripts list holds both a url and a body cut to 500 characters
C18_Witness ==
    /\ har.pc = "done"
    /\ Captures[har.capture].readable /\ Captures[har.capture].json
    /\ \E i \in DOMAIN CapturedEntries : IsScriptEntry(CapturedEntries[i])
    /\ \E g \in Range(DocumentOf(har.result.html.v).tags) :
          IsInlineScript(g) /\ Len(g.text) > InlineLimit
    /\ Len(ScriptSources) > Len(har.result.scripts)
    /\ \E i \in DOMAIN har.result.scripts : Len(har.result.scripts[i].v) = InlineLimit
    /\ \A i \in DOMAIN har.result.scripts : Len(har.result.scripts[i].v) <= InlineLimit

\* the table a load function loads
TableOf(op) ==
    IF op = "load_technologies" THEN "technologies"
    ELSE IF op = "load_categories" THEN "categories" ELSE "groups"

\* C19: in any sequence of calls of load_technologies, load_categories, load_groups
\* and ensure_fingerprint_data, each table is loaded from its source at most once
\* between force refreshes; once a load has returned, a later call without force
\* reads no file and no network for that table, leaves its cache as it is and
\* (a load function) returns the cached table; ensure_fingerprint_data(force=True)
\* clears the three caches and loads the three tables anew before it returns.
C19_LoadedOnce ==
    [][loader'.calls = loader.calls + 1 =>
          /\ \A t \in Range(TableNames) : loader'.loads[t] <= 1
          /\ loader'.op # "ensure_fingerprint_data" =>
                /\ loader'.cache[TableOf(loader'.op)] # JNull
                /\ loader'.ret = loader'.cache[TableOf(loader'.op)]
          /\ ~loader'.force =>
                \A t \in Range(TableNames) :
                    loader.cache[t] # JNull =>
                        /\ t \notin loader'.read
                        /\ loader'.cache[t] = loader.cache[t]
                        /\ loader'.loads[t] = loader.loads[t]
                        /\ loader'.files[t] = loader.files[t]
          /\ loader'.op = "ensure_fingerprint_data" /\ loader'.force =>
                /\ loader'.read = Range(TableNames)
                /\ \A t \in Range(TableNames) :
                      loader'.cache[t] # JNull /\ loader'.loads[t] = 1]_vars

\* C19 witness: load_groups has returned the table an earlier call cached, reading
\* nothing, after the local file and the remote data set came to hold other data
C19_Witness ==
    /\ loader.op = "load_groups"
    /\ loader.read = {}
    /\ loader.changes > 0
    /\ loader.loads["groups"] = 1
    /\ loader.ret = loader.cache["groups"]
    /\ loader.ret # Loaded(loader, "groups")
    /\ loader.ret # LoadJsonFile(loader, "groups")

\* the names of the technologies of a list of Detections
NamesIn(rs) == {rs[i].name : i \in DOMAIN rs}

\* C20: in a sequence of analyze calls on one TechDetector, each call returns what
\* a newly constructed detector with the same tables returns for the same bundle,
\* and raises when that one raises: no Detection, match label or version of an
\* earlier call is in a later result or alters it.
C20_EachCallAsOnFreshDetector ==
    \A t \in callers :
        LET fresh == Alone(technologies, categories, groups, bundle[t])
        IN /\ pc[t] = "done" => ~fresh.raised /\ Canon(ret[t]) = fresh.results
           /\ pc[t] = "raised" => fresh.raised

\* C20 witness: a call has returned Detections after an earlier call on the same
\* detector, with another bundle, for which a technology is detected that is not
\* in this result
C20_Witness ==
    \E t \in callers :
        /\ pc[t] = "done"
        /\ ret[t] # <<>>
        /\ \E i \in earlier :
              /\ Bundles[i] # bundle[t]
              /\ ~Alone(technologies, categories, groups, Bundles[i]).raised
              /\ NamesIn(Alone(technologies, categories, groups, Bundles[i]).results)
                    \ NamesIn(ret[t]) # {}

\* C21: the headers, cookies, scripts and meta of every bundle parse_har_file
\* returns are objects of that bundle alone, the all-empty bundle of a missing
\* file or of a capture without entries included: when the caller writes to one
\* bundle it holds, the other bundle it holds is as before, and so are the
\* containers of EMPTY_HAR_RESULT that later calls copy.
C21_BundlesShareNothing ==
    [][har.pc = "done" /\ har'.pc = "done" /\ har'.budget = har.budget =>
          /\ har'.result # har.result => har'.previous = har.previous
          /\ har'.previous # har.previous => har'.result = har.result
          /\ har'.shared = har.shared]_vars

\* C22: after ensure_fingerprint_data(force=True) has completed, every later call
\* of detect_technologies analyzes against the reloaded tables, those the caches
\* hold: the module-level detector made before the refresh does not go on using
\* the tables loaded before it.
C22_SingletonUsesReloadedTables ==
    [][loader.refreshed /\ singleton'.calls = singleton.calls + 1
          => singleton'.used = loader'.cache]_vars

====
